---------------------------- MODULE Spec2Model ----------------------------
(***************************************************************************)
(* Model of the marimo executor service: the per-session cell tracker      *)
(* (service/session.py), the cell executor (service/executor.py), the      *)
(* security validator (service/security.py), the session manager and the   *)
(* gRPC surface (main.py).                                                  *)
(*                                                                         *)
(* Python objects are records [oid, repr, wchar, idattr]:                  *)
(*   oid    object identity (what `is` compares);                          *)
(*   repr   the text repr() / str() yields, as a number;                   *)
(*   wchar  0 unless _is_marimo_widget(obj); otherwise the hash of the     *)
(*          widget's characteristics (type, properties, value), which      *)
(*          gives the registry key "widget_<hash>". The widgets are number *)
(*          inputs with the same bounds, so the hash tells the value;      *)
(*   idattr 0 unless the object carries `_id` and `_kind`; otherwise the   *)
(*          registry key its `_id` attribute equals.                       *)
(* Dictionaries are functions whose DOMAIN is the key set; the insertion   *)
(* order of session.globals, which iteration follows, is kept in gorder.   *)
(***************************************************************************)
EXTENDS Integers, Sequences, FiniteSets, TLC

\* ------------------------------------------------------------------ bounds

\* Small integers are interned by the interpreter: 1..MaxInt.
MaxInt == 3
\* Identities available for objects that are allocated afresh.
MaxObjects == 12
\* RPCs served in one behaviour.
MaxCalls == 3
\* Session objects alive at once.
MaxRefs == 4
\* The clock stops here.
MaxTime == 3

\* Config.MAX_SESSIONS and Config.SESSION_TIMEOUT_MINUTES, both set from the
\* environment; the deployment modelled sets them low.
MAX_SESSIONS == 2
SESSION_TIMEOUT_MINUTES == 1

\* Config.MAX_CODE_LENGTH, in characters.
MAX_CODE_LENGTH == 25000

\* ------------------------------------------------------------------- state

VARIABLES
    sessions,      \* SessionManager.sessions: session id -> reference
    heap,          \* reference -> NotebookSession
    sys_modules,   \* sys.modules, process-wide: module name -> module object
    now,           \* the wall clock, in minutes
    threads,       \* the servicer's worker threads: where each request stands
    resp,          \* the response of the last RPC that returned
    ncalls,        \* ExecuteCell requests accepted so far
    proc,          \* sys.stdout, sys.stderr and the working directory, process-wide
    config,        \* Config.ALLOWED_IMPORTS and Config.BLOCKED_MODULES
    figures        \* pyplot's open figures, process-wide, in figure-number order

vars == <<sessions, heap, sys_modules, now, threads, resp, ncalls, proc, config,
          figures>>

\* --------------------------------------------------------------- universe

Cells == {"initialization", "c1", "c2"}
UserNames == {"x", "y", "np", "pd", "_p"}
UnderscoreNames == {"_p"}
SessionIds == {"s1", "s2", "s3"}
Threads == {"t1", "t2"}
Refs == 1..MaxRefs

IntOids == 1..MaxInt
FreshOids == (MaxInt + 1)..(MaxInt + MaxObjects)

EmptyDict == [k \in {} |-> 0]

Put(f, k, v) == [a \in DOMAIN f \cup {k} |-> IF a = k THEN v ELSE f[a]]
Del(f, k) == [a \in DOMAIN f \ {k} |-> f[a]]
DelAll(f, ks) == [a \in DOMAIN f \ ks |-> f[a]]

Without(q, ks) == SelectSeq(q, LAMBDA a : a \notin ks)

\* ----------------------------------------------------------------- objects

MoObject == [oid |-> 0, repr |-> 0, wchar |-> 0, idattr |-> 0]
IntObject(k) == [oid |-> k, repr |-> k, wchar |-> 0, idattr |-> 0]
ListObject(o, k) == [oid |-> o, repr |-> 10 + k, wchar |-> 0, idattr |-> 0]
ModuleRepr(m) == CASE m = "numpy" -> 21 [] m = "pandas" -> 22 [] OTHER -> 23
ModuleObject(o, m) == [oid |-> o, repr |-> ModuleRepr(m), wchar |-> 0, idattr |-> 0]
WidgetObject(o, c, i) == [oid |-> o, repr |-> 30 + c, wchar |-> c, idattr |-> i]
NoneObject == [oid |-> 0, repr |-> 99, wchar |-> 0, idattr |-> 0]
\* A matplotlib Figure; hasattr(v, 'savefig') singles it out.
FigureObject(o) == [oid |-> o, repr |-> 40, wchar |-> 0, idattr |-> 0]
HasSavefig(v) == v.repr = 40

\* The widgets the cells construct: number inputs declared with these bounds.
WidgetMin == 0
WidgetMax == 2

\* md5 of the canonical JSON of (type, properties, value): one-to-one here.
WidgetHash(type, properties, value) == value + 1
\* _get_widget_value / getattr(obj, 'value'): the widget object's value.
GetWidgetValue(v) == v.wchar - 1
\* _get_widget_type and _extract_widget_properties of a widget object.
GetWidgetType(v) == "number"
ExtractWidgetProperties(v) == [min |-> WidgetMin, max |-> WidgetMax]
\* The object after `obj._value = value`.
SetWidgetValue(v, value) ==
    [v EXCEPT !.wchar = WidgetHash(GetWidgetType(v), ExtractWidgetProperties(v), value),
              !.repr = 30 + value + 1]

\* ----------------------------------------------------------------- sources
(***************************************************************************)
(* A cell source is a sequence of top-level statements, one per line:      *)
(*   assign  `target = expr`   (a plain ast.Name target);                  *)
(*   import  `import module as target`;                                    *)
(*   raise   a statement that raises (1/0);                                *)
(*   expr    an expression statement; when it is the last statement its    *)
(*           value is the cell's expression result;                        *)
(*   comment a comment line of `expr.num` characters;                      *)
(*   unparsable  a line ast.parse rejects with SyntaxError;                *)
(*   print   a call that writes to sys.stdout;                             *)
(*   warn    a call that writes to sys.stderr and raises nothing.          *)
(* SameLine(st) is st written after a `;` on the line of the statement     *)
(* before it.                                                              *)
(* Expressions: lit (an interned small integer literal), new (a list       *)
(* display, a new object each time), inc (`name + 1`), ref (`name`),       *)
(* widget (a constructor call returning a new widget-shaped object; name   *)
(* "id" when the object's `_id` equals its registry key), evalcall (a call *)
(* whose callee is the bare name eval), plot (`plt.plot([1, 2])`: draws on *)
(* pyplot's current figure, opening one if none is open, and evaluates to  *)
(* a new list), figure (`plt.plot([1, 2])[0].figure`: draws likewise and   *)
(* evaluates to that figure).                                              *)
(***************************************************************************)
NoExpr == [kind |-> "none", num |-> 0, name |-> ""]
ELit(k) == [kind |-> "lit", num |-> k, name |-> ""]
ENew(k) == [kind |-> "new", num |-> k, name |-> ""]
EInc(n) == [kind |-> "inc", num |-> 0, name |-> n]
ERef(n) == [kind |-> "ref", num |-> 0, name |-> n]
EWidget(c, i) == [kind |-> "widget", num |-> c, name |-> i]
EvalCall == [kind |-> "evalcall", num |-> 0, name |-> "eval"]
EPlot == [kind |-> "plot", num |-> 0, name |-> "plt"]
EFigure == [kind |-> "figure", num |-> 0, name |-> "plt"]

Assign(t, e) == [op |-> "assign", target |-> t, expr |-> e, module |-> ""]
Import(m, a) == [op |-> "import", target |-> a, expr |-> NoExpr, module |-> m]
Raise == [op |-> "raise", target |-> "", expr |-> NoExpr, module |-> ""]
ExprStmt(e) == [op |-> "expr", target |-> "", expr |-> e, module |-> ""]
Comment(k) == [op |-> "comment", target |-> "", expr |-> ELit(k), module |-> ""]
Unparsable == [op |-> "unparsable", target |-> "", expr |-> NoExpr, module |-> ""]
\* print("a"), and a call that makes numpy write a RuntimeWarning to sys.stderr.
PrintStmt == [op |-> "print", target |-> "", expr |-> NoExpr, module |-> ""]
WarnStmt == [op |-> "warn", target |-> "", expr |-> NoExpr, module |-> ""]
\* The statement st written on the line of the statement before it: `...; st`.
SameLine(st) ==
    [op |-> st.op, target |-> st.target, expr |-> st.expr, module |-> st.module,
     same_line |-> TRUE]
OnSameLine(st) == "same_line" \in DOMAIN st

\* The cell sources the clients submit: each statement alone, and the pairs
\* in which a later statement depends on, or follows the failure of, an earlier one.
SingleSources ==
    {<<st>> : st \in
        {Assign("x", ELit(1)), Assign("x", ENew(1)), Assign("x", EInc("x")),
         Assign("y", EInc("x")), Assign("y", EWidget(1, "id")),
         Assign("_p", EWidget(1, "id")), Assign("_p", EWidget(1, "")),
         Import("numpy", "np"), Import("pandas", "pd"), Import("os", "np"),
         Raise, ExprStmt(ERef("x")), ExprStmt(EvalCall), Unparsable,
         Comment(MAX_CODE_LENGTH + 1)}}

PairSources ==
    {<<Assign("x", ELit(1)), Assign("y", EInc("x"))>>,
     <<Assign("x", ERef("_p")), ExprStmt(ERef("x"))>>,
     <<Assign("x", ERef("y")), ExprStmt(ERef("x"))>>,
     <<Assign("x", ENew(1)), Raise>>,
     <<Raise, Assign("x", ELit(1))>>,
     <<Import("pandas", "pd"), Raise>>,
     <<Import("numpy", "np"), Assign("x", ELit(1))>>}

Sources == {<<>>} \cup SingleSources \cup PairSources

\* The sources submitted where several requests or sessions are in play.
FewSources ==
    {<<>>, <<Assign("x", ELit(1))>>, <<Assign("x", ENew(1))>>, <<Assign("y", EInc("x"))>>,
     <<Import("numpy", "np")>>, <<Import("pandas", "pd")>>, <<Raise>>}

\* The notebook sources a session is constructed with.
InitSources == {<<>>, <<Assign("x", ELit(1))>>, <<Import("numpy", "np")>>,
                <<Assign("x", ENew(1)), Assign("y", ELit(1))>>}

\* The notebooks in the object store, by path; any other path is missing.
StoredNotebooks ==
    [nb \in {"empty", "x", "np", "rejected", "raises"} |->
        CASE nb = "empty" -> <<>>
          [] nb = "x" -> <<Assign("x", ELit(1))>>
          [] nb = "rejected" -> <<Assign("x", ELit(1)), Import("os", "np")>>
          [] nb = "raises" -> <<Assign("x", ELit(1)), Raise, Assign("y", ELit(1))>>
          [] OTHER -> <<Import("numpy", "np")>>]
\* The second location tried for a path: component.py replaced by notebook.py.
\* The path "component" names a component.py that is not stored while the
\* notebook.py beside it is the stored "x".
AltPath(nb) == IF nb = "component" THEN "x" ELSE nb
NotebookPaths == {"empty", "x", "np", "component", "missing"}
\* The paths of the notebooks whose source the validator rejects or that raise.
FailingPaths == {"rejected", "raises", "missing"}
VerifyNotebookExists(nb) ==
    nb \in DOMAIN StoredNotebooks \/ AltPath(nb) \in DOMAIN StoredNotebooks
GetNotebookContent(nb) ==
    IF nb \in DOMAIN StoredNotebooks THEN StoredNotebooks[nb]
    ELSE StoredNotebooks[AltPath(nb)]

\* ast.walk(tree) restricted to the node kinds the service looks for.
ImportedModules(code) ==
    {code[i].module : i \in {j \in 1..Len(code) : code[j].op = "import"}}
AssignTargets(code) ==
    {code[i].target : i \in {j \in 1..Len(code) : code[j].op = "assign"}}
EvalExecCalls(code) ==
    {i \in 1..Len(code) : code[i].expr.kind = "evalcall"}

\* len(code): a comment line has the length it says, any other line is short.
RECURSIVE SourceLength(_)
SourceLength(code) ==
    IF code = <<>> THEN 0
    ELSE (IF Head(code).op = "comment" THEN Head(code).expr.num ELSE 20)
         + SourceLength(Tail(code))

\* ast.parse(code) returns a tree.
Parses(code) == \A i \in 1..Len(code) : code[i].op # "unparsable"

\* --------------------------------------------------------------- security

ALLOWED_IMPORTS == {"numpy", "pandas", "matplotlib", "plotly", "marimo", "math",
                    "statistics", "random", "datetime", "json", "scipy", "seaborn"}
BLOCKED_MODULES == {"os", "subprocess", "sys", "socket", "urllib", "requests",
                    "http", "builtins"}

\* The import rule with the blocked set left out.
ValidateImport_AllowedOnly(v, m) ==
    IF m \notin v.allowed_imports THEN "not allowed" ELSE "ok"

\* _validate_import for one imported top-level module m; v is the validator,
\* [allowed_imports, blocked_modules] as its constructor read them from Config.
ValidateImport(v, m) ==
    IF m \in v.blocked_modules THEN "blocked"
    ELSE IF m \notin v.allowed_imports THEN "not allowed"
    ELSE "ok"

ValidateAst(v, code) ==
    /\ \A m \in ImportedModules(code) : ValidateImport(v, m) = "ok"
    /\ EvalExecCalls(code) = {}

\* The messages validate_code returns with False.
ValidationErrors == {"Code exceeds maximum length", "Syntax error", "not allowed"}

\* A validator that parses before it measures.
ValidationMessage_ParseFirst(v, code) ==
    IF ~Parses(code) THEN "Syntax error"
    ELSE IF SourceLength(code) > MAX_CODE_LENGTH THEN "Code exceeds maximum length"
    ELSE IF ~ValidateAst(v, code) THEN "not allowed"
    ELSE ""

\* validate_code's message: the length cap, the parse, then the walk; "" with True.
ValidationMessage(v, code) ==
    IF SourceLength(code) > MAX_CODE_LENGTH THEN "Code exceeds maximum length"
    ELSE IF ~Parses(code) THEN "Syntax error"
    ELSE IF ~ValidateAst(v, code) THEN "not allowed"
    ELSE ""

\* validate_code's flag.
ValidateCode(v, code) == ValidationMessage(v, code) = ""

\* ---------------------------------------------------------------- tracker

PROTECTED_VARIABLES == {"mo", "marimo", "__builtins__", "__name__", "__doc__",
                        "__package__", "__loader__", "__spec__", "__file__"}

IsProtectedVariable(n) == n \in PROTECTED_VARIABLES \/ n \in UnderscoreNames

ProtectedModules == {"marimo", "mo", "builtins", "__builtin__", "sys", "os", "io",
                     "typing", "collections", "datetime", "time", "json", "pickle",
                     "tempfile", "shutil", "uuid", "asyncio", "ast", "inspect"}

IsProtectedModule(m) == m \in ProtectedModules \/ m \in {"minio", "config"}

\* session.globals[n] = v, keeping dict insertion order.
SetGlobal(s, n, v) ==
    [s EXCEPT !.globals = Put(s.globals, n, v),
              !.gorder = IF n \in DOMAIN s.globals THEN s.gorder
                         ELSE Append(s.gorder, n)]

\* del session.globals[n] for every n in ns.
DelGlobals(s, ns) ==
    [s EXCEPT !.globals = DelAll(s.globals, ns),
              !.gorder = Without(s.gorder, ns)]

IsModuleUsedByOtherCells(s, c, m) ==
    \E d \in DOMAIN s.cell_imports : d # c /\ m \in s.cell_imports[d]

IsWidgetUsedByOtherCells(s, c, wid) ==
    \E d \in DOMAIN s.cell_widgets : d # c /\ wid \in s.cell_widgets[d]

IsProtectedWidget(wid) == FALSE

IsImportAlias(s, n) ==
    \/ n \in {"pd", "np", "plt", "sns", "os", "sys", "json", "dt"}
    \/ \E d \in DOMAIN s.cell_imports :
          /\ s.cell_imports[d] # {}
          /\ d \in DOMAIN s.cell_variables
          /\ n \in s.cell_variables[d]

OtherCellImportsSameModule(s, d, n) ==
    d \in DOMAIN s.cell_imports /\ Cardinality(s.cell_imports[d]) > 0

MightHaveDependency(s, d, n) ==
    IF d \notin DOMAIN s.cell_variables THEN FALSE
    ELSE IF IsImportAlias(s, n)
         THEN IF n \in s.cell_variables[d] THEN FALSE
              ELSE OtherCellImportsSameModule(s, d, n)
         ELSE FALSE

IsVariableReferencedByOtherCells(s, c, n) ==
    \E d \in DOMAIN s.cell_variables \ {c} :
        /\ s.cell_variables[d] # {}
        /\ n \in DOMAIN s.globals
        /\ MightHaveDependency(s, d, n)

IsVariableUsedByOtherCells(s, c, n) ==
    \/ \E d \in DOMAIN s.cell_variables : d # c /\ n \in s.cell_variables[d]
    \/ IsVariableReferencedByOtherCells(s, c, n)

\* Operators that also touch sys.modules work on a pair [s, mods].
CleanupCellImports(w, c) ==
    IF c \notin DOMAIN w.s.cell_imports THEN w
    ELSE LET modules_to_remove ==
                 {m \in w.s.cell_imports[c] :
                     /\ m \in DOMAIN w.mods
                     /\ ~IsModuleUsedByOtherCells(w.s, c, m)
                     /\ ~IsProtectedModule(m)}
         IN [s |-> [w.s EXCEPT !.cell_imports = Del(w.s.cell_imports, c)],
             mods |-> DelAll(w.mods, modules_to_remove)]

\* The first global, in dict order, whose `_id` equals wid (the loop breaks there).
FirstGlobalWithId(s, wid) ==
    LET hits == {i \in 1..Len(s.gorder) : s.globals[s.gorder[i]].idattr = wid}
    IN IF hits = {} THEN {}
       ELSE {s.gorder[CHOOSE i \in hits : \A j \in hits : i <= j]}

CleanupCellWidgets(s, c) ==
    IF c \notin DOMAIN s.cell_widgets THEN s
    ELSE LET widgets_to_remove ==
                 {wid \in s.cell_widgets[c] :
                     /\ wid \in DOMAIN s.widgets
                     /\ ~IsWidgetUsedByOtherCells(s, c, wid)
                     /\ ~IsProtectedWidget(wid)}
             victims == UNION {FirstGlobalWithId(s, wid) : wid \in widgets_to_remove}
             t == DelGlobals(s, victims)
         IN [t EXCEPT !.widgets = DelAll(s.widgets, widgets_to_remove),
                      !.worder = Without(s.worder, widgets_to_remove),
                      !.cell_widgets = Del(s.cell_widgets, c)]

\* A selection that treats every binding as still in use.
VariablesToRemove_Nothing(s, c) == {}

VariablesToRemove(s, c) ==
    {n \in s.cell_variables[c] :
        /\ n \in DOMAIN s.globals
        /\ ~IsVariableUsedByOtherCells(s, c, n)
        /\ ~IsProtectedVariable(n)}

\* The end of _cleanup_cell_variables: del cell_variables[c], and the snapshot.
ForgetCell(s, c) ==
    [s EXCEPT !.cell_variables = Del(s.cell_variables, c),
              !.cell_globals_snapshot = s.cell_globals_snapshot \ {c}]

RetractWidgets(w, c) == [w EXCEPT !.s = ForgetCell(CleanupCellWidgets(w.s, c), c)]

\* A retraction that drops the cell's record but leaves its bindings in place.
CleanupCellVariables_RecordOnly(w, c) ==
    IF c \notin DOMAIN w.s.cell_variables THEN w
    ELSE RetractWidgets(CleanupCellImports(w, c), c)

\* _cleanup_cell_variables: bindings, then imports, then widgets, then the record.
CleanupCellVariables(w, c) ==
    IF c \notin DOMAIN w.s.cell_variables THEN w
    ELSE RetractWidgets(
             CleanupCellImports(
                 [w EXCEPT !.s = DelGlobals(w.s, VariablesToRemove(w.s, c))], c), c)

\* A forced cleanup that spares the bindings other cells still use.
ForceCleanupAllCellVariables_Shared(s, c) ==
    IF c \notin DOMAIN s.cell_variables THEN s
    ELSE ForgetCell(DelGlobals(s, VariablesToRemove(s, c)), c)

\* force_cleanup_all_cell_variables: every binding of the record that is not
\* protected, whoever else lists it; imports and widgets are left alone.
ForceCleanupAllCellVariables(s, c) ==
    IF c \notin DOMAIN s.cell_variables THEN s
    ELSE ForgetCell(
             DelGlobals(s, {n \in s.cell_variables[c] :
                               n \in DOMAIN s.globals /\ ~IsProtectedVariable(n)}), c)

\* The four passes of optimize_session_performance, in the order they run.
RemoveStaleSnapshots(s) ==
    [s EXCEPT !.cell_globals_snapshot = @ \cap DOMAIN s.cell_variables]

RemoveEmptyEntries(s) ==
    [s EXCEPT !.cell_variables =
        [d \in {k \in DOMAIN s.cell_variables : s.cell_variables[k] # {}} |->
            s.cell_variables[d]]]

RemoveOrphanedImports(s) ==
    [s EXCEPT !.cell_imports =
        [d \in DOMAIN s.cell_imports \cap DOMAIN s.cell_variables |-> s.cell_imports[d]]]

RemoveOrphanedWidgets(s) ==
    [s EXCEPT !.cell_widgets =
        [d \in DOMAIN s.cell_widgets \cap DOMAIN s.cell_variables |-> s.cell_widgets[d]]]

\* A repair that stops after the import pass.
OptimizeSessionPerformance_NoWidgetPass(s) ==
    RemoveOrphanedImports(RemoveEmptyEntries(RemoveStaleSnapshots(s)))

OptimizeSessionPerformance(s) ==
    RemoveOrphanedWidgets(RemoveOrphanedImports(RemoveEmptyEntries(RemoveStaleSnapshots(s))))

\* validate_session_integrity, the two lists of cell ids the repair is about.
ValidateSessionIntegrity(s) ==
    [orphaned_snapshots |-> s.cell_globals_snapshot \ DOMAIN s.cell_variables,
     consistency_errors |->
         (DOMAIN s.cell_imports \cup DOMAIN s.cell_widgets) \ DOMAIN s.cell_variables]

\* add_widget_dependency: both ends when both ids are registered, else nothing.
AddWidgetDependency(s, widget_id, depends_on_id) ==
    IF widget_id \in DOMAIN s.widgets /\ depends_on_id \in DOMAIN s.widgets
    THEN [s EXCEPT !.widgets =
             [k \in DOMAIN s.widgets |->
                 [s.widgets[k] EXCEPT
                     !.dependencies = IF k = widget_id THEN @ \cup {depends_on_id} ELSE @,
                     !.dependents = IF k = depends_on_id THEN @ \cup {widget_id} ELSE @]]]
    ELSE s

\* A conflict pass that unbinds the names and leaves the `initialization` record alone.
CleanupConflictingInitialVariables_KeepRecord(s, c, code) ==
    IF c = "initialization" \/ "initialization" \notin DOMAIN s.cell_variables THEN s
    ELSE DelGlobals(s, {n \in AssignTargets(code) :
                           /\ n \in s.cell_variables["initialization"]
                           /\ n \in DOMAIN s.globals
                           /\ ~IsProtectedVariable(n)})

CleanupConflictingInitialVariables(s, c, code) ==
    IF c = "initialization" \/ "initialization" \notin DOMAIN s.cell_variables THEN s
    ELSE LET variables_to_remove ==
                 {n \in AssignTargets(code) :
                     /\ n \in s.cell_variables["initialization"]
                     /\ n \in DOMAIN s.globals
                     /\ ~IsProtectedVariable(n)}
             left == s.cell_variables["initialization"] \ variables_to_remove
             t == DelGlobals(s, variables_to_remove)
         IN IF left # {}
            THEN [t EXCEPT !.cell_variables["initialization"] = left]
            ELSE [t EXCEPT !.cell_variables = Del(s.cell_variables, "initialization"),
                           !.cell_globals_snapshot =
                               s.cell_globals_snapshot \ {"initialization"}]

\* Yields [s, mods, raised]: the final `del self.cell_globals_snapshot[cell_id]`
\* raises KeyError when the executing cell has no snapshot.
CleanupConflictingInitialImports(w, c, code) ==
    IF c = "initialization" \/ "initialization" \notin DOMAIN w.s.cell_imports
    THEN [s |-> w.s, mods |-> w.mods, raised |-> FALSE]
    ELSE LET imports_to_remove ==
                 {m \in ImportedModules(code) :
                     m \in w.s.cell_imports["initialization"] /\ ~IsProtectedModule(m)}
             left == w.s.cell_imports["initialization"] \ imports_to_remove
             mods == DelAll(w.mods, imports_to_remove)
         IN IF left # {}
            THEN [s |-> [w.s EXCEPT !.cell_imports["initialization"] = left],
                  mods |-> mods, raised |-> FALSE]
            ELSE [s |-> [w.s EXCEPT
                           !.cell_imports = Del(w.s.cell_imports, "initialization"),
                           !.cell_globals_snapshot = w.s.cell_globals_snapshot \ {c}],
                  mods |-> mods,
                  raised |-> c \notin w.s.cell_globals_snapshot]

\* The shallow copy {k: v for k, v in self.globals.items()}.
CapturePreExecutionState(s) == s.globals

\* A tracker that lists the new names only.
TrackedVars_NewOnly(s, pre) ==
    {n \in DOMAIN s.globals \ DOMAIN pre : ~IsProtectedVariable(n)}

TrackedVars(s, pre) ==
    LET current_vars == DOMAIN s.globals
        pre_vars == DOMAIN pre
        new_vars == current_vars \ pre_vars
        modified_vars == {n \in pre_vars \cap current_vars :
                             s.globals[n].oid # pre[n].oid}
    IN {n \in new_vars \cup modified_vars : ~IsProtectedVariable(n)}

TrackCellVariables(s, c, pre) ==
    LET tracked_vars == TrackedVars(s, pre)
    IN [s EXCEPT !.cell_variables =
                     IF tracked_vars # {} THEN Put(s.cell_variables, c, tracked_vars)
                     ELSE Del(s.cell_variables, c),
                 !.cell_globals_snapshot = s.cell_globals_snapshot \cup {c}]

\* get_cell_variables: self.cell_variables.get(cell_id, set()).
GetCellVariables(s, c) ==
    IF c \in DOMAIN s.cell_variables THEN s.cell_variables[c] ELSE {}

TrackCellImports(s, c, code) ==
    LET filtered_imports == {m \in ImportedModules(code) : ~IsProtectedModule(m)}
    IN [s EXCEPT !.cell_imports =
                     IF filtered_imports # {} THEN Put(s.cell_imports, c, filtered_imports)
                     ELSE Del(s.cell_imports, c)]

\* _extract_widget_id_from_variable: the object's `_id`, if it has `_id` and `_kind`.
ExtractWidgetIdFromVariable(v) == v.idattr

TrackCellWidgets(s, c) ==
    IF c \notin DOMAIN s.cell_variables THEN s
    ELSE LET cell_widget_ids ==
                 {ExtractWidgetIdFromVariable(s.globals[n]) :
                     n \in {a \in s.cell_variables[c] :
                               /\ a \in DOMAIN s.globals
                               /\ ExtractWidgetIdFromVariable(s.globals[a]) # 0
                               /\ ExtractWidgetIdFromVariable(s.globals[a])
                                      \in DOMAIN s.widgets}}
         IN [s EXCEPT !.cell_widgets =
                          IF cell_widget_ids # {} THEN Put(s.cell_widgets, c, cell_widget_ids)
                          ELSE Del(s.cell_widgets, c)]

\* --------------------------------------------------------------- executor

OidsOf(g) == {g[n].oid : n \in DOMAIN g}
ModOids(mods) == {mods[m] : m \in DOMAIN mods}
WidgetOids(s) == {s.widgets[k].obj : k \in DOMAIN s.widgets}

\* The identity of a newly allocated object: one no live object has.
FreshOid(used) ==
    CHOOSE o \in FreshOids \ used : \A p \in FreshOids \ used : o <= p

\* Evaluates an expression in the namespace g: [ok, val, over]; ok = FALSE is an
\* exception (NameError, TypeError), over marks an integer beyond the modelled range.
Eval(e, g, used) ==
    CASE e.kind = "lit" -> [ok |-> TRUE, val |-> IntObject(e.num), over |-> FALSE]
      [] e.kind = "new" ->
            [ok |-> TRUE, val |-> ListObject(FreshOid(used), e.num), over |-> FALSE]
      [] e.kind = "inc" ->
            IF e.name \in DOMAIN g /\ g[e.name].oid \in IntOids
            THEN IF g[e.name].repr + 1 \in IntOids
                 THEN [ok |-> TRUE, val |-> IntObject(g[e.name].repr + 1), over |-> FALSE]
                 ELSE [ok |-> TRUE, val |-> NoneObject, over |-> TRUE]
            ELSE [ok |-> FALSE, val |-> NoneObject, over |-> FALSE]
      [] e.kind = "ref" ->
            IF e.name \in DOMAIN g
            THEN [ok |-> TRUE, val |-> g[e.name], over |-> FALSE]
            ELSE [ok |-> FALSE, val |-> NoneObject, over |-> FALSE]
      [] e.kind = "widget" ->
            [ok |-> TRUE,
             val |-> WidgetObject(FreshOid(used), e.num,
                                  IF e.name = "id" THEN e.num ELSE 0),
             over |-> FALSE]
      [] OTHER -> [ok |-> FALSE, val |-> NoneObject, over |-> FALSE]

\* Identities in use while the run r is under way.
Used(r, held) ==
    held \cup OidsOf(r.s.globals) \cup ModOids(r.mods)
         \cup {r.figs[i] : i \in 1..Len(r.figs)}

\* pyplot's state once the expression e has drawn: plt.plot opens a figure when
\* none is open (plt.gcf()).
Drawn(r, e, held) ==
    IF e.kind \in {"plot", "figure"} /\ "plt" \in DOMAIN r.s.globals /\ r.figs = <<>>
    THEN [r EXCEPT !.figs = <<FreshOid(Used(r, held))>>]
    ELSE r

\* The value of the expression e in the run r, which has drawn already.
EvalIn(r, e, held) ==
    CASE e.kind = "plot" ->
            IF "plt" \in DOMAIN r.s.globals
            THEN [ok |-> TRUE, val |-> ListObject(FreshOid(Used(r, held)), 0),
                  over |-> FALSE]
            ELSE [ok |-> FALSE, val |-> NoneObject, over |-> FALSE]
      [] e.kind = "figure" ->
            IF "plt" \in DOMAIN r.s.globals
            THEN [ok |-> TRUE, val |-> FigureObject(r.figs[Len(r.figs)]), over |-> FALSE]
            ELSE [ok |-> FALSE, val |-> NoneObject, over |-> FALSE]
      [] OTHER -> Eval(e, r.s.globals, Used(r, held))

\* `import m`: the module object sys.modules holds, or a newly loaded one.
ImportModule(r, m, held) ==
    IF m \in DOMAIN r.mods THEN r.mods[m] ELSE FreshOid(Used(r, held))

\* exec / eval of the statements code[i..] against session.globals; r is
\* [s, mods, err, hasres, res, over, figs, stdout, stderr, discard, ran]; held are
\* identities of objects alive elsewhere. figs are pyplot's open figures, stdout
\* and stderr say whether the redirected buffers hold text, discard is TRUE
\* while exec() runs the source (the value of a trailing expression is then
\* dropped), ran lists the statements run so far, by position.
RECURSIVE RunFrom(_, _, _, _)
RECURSIVE RunStatement(_, _, _, _, _, _)

\* The statement st with its expression already evaluated to ev.
RunStatement(r, code, i, held, st, ev) ==
    CASE st.op = "assign" ->
            IF ~ev.ok THEN [r EXCEPT !.err = TRUE]
            ELSE IF ev.over THEN [r EXCEPT !.over = TRUE]
            ELSE RunFrom([r EXCEPT !.s = SetGlobal(r.s, st.target, ev.val)],
                         code, i + 1, held)
      [] st.op = "import" ->
            RunFrom([r EXCEPT
                       !.s = SetGlobal(r.s, st.target,
                                       ModuleObject(ImportModule(r, st.module, held),
                                                    st.module)),
                       !.mods = Put(r.mods, st.module,
                                    ImportModule(r, st.module, held))],
                    code, i + 1, held)
      [] st.op = "expr" ->
            IF ~ev.ok THEN [r EXCEPT !.err = TRUE]
            ELSE IF ev.over THEN [r EXCEPT !.over = TRUE]
            ELSE IF i = Len(code) /\ ~r.discard
                 THEN [r EXCEPT !.hasres = TRUE, !.res = ev.val]
                 ELSE RunFrom(r, code, i + 1, held)
      [] st.op = "comment" -> RunFrom(r, code, i + 1, held)
      [] st.op = "print" -> RunFrom([r EXCEPT !.stdout = TRUE], code, i + 1, held)
      [] st.op = "warn" -> RunFrom([r EXCEPT !.stderr = TRUE], code, i + 1, held)
      [] OTHER -> [r EXCEPT !.err = TRUE]

\* The statement code[i] in the run d, in which its expression has drawn.
RunDrawn(d, code, i, held) ==
    RunStatement(d, code, i, held, code[i], EvalIn(d, code[i].expr, held))

RunFrom(r, code, i, held) ==
    IF i > Len(code) \/ r.err \/ r.over THEN r
    ELSE RunDrawn(Drawn([r EXCEPT !.ran = Append(@, i)], code[i].expr, held),
                  code, i, held)

\* The run before its first statement; pyplot's figures are the process's.
StartRun(w) ==
    [s |-> w.s, mods |-> w.mods, err |-> FALSE, hasres |-> FALSE,
     res |-> NoneObject, over |-> FALSE, figs |-> figures, stdout |-> FALSE,
     stderr |-> FALSE, discard |-> FALSE, ran |-> <<>>]

\* last_node.lineno: the position of the first statement on the last line.
RECURSIVE LastLineStart(_, _)
LastLineStart(code, i) ==
    IF i > 1 /\ OnSameLine(code[i]) THEN LastLineStart(code, i - 1) ELSE i

\* exec(code, globals) of the whole source.
ExecAll(r, code, held) == RunFrom([r EXCEPT !.discard = TRUE], code, 1, held)

\* The except SyntaxError branch: exec(code, globals) of the whole source in
\* the namespace p the lines above the last line have already run in; None.
ExecAgain(p, code, held) ==
    IF p.err \/ p.over THEN p ELSE ExecAll(p, code, held)

\* _execute_with_expression_handling. When the last statement is an expression
\* the lines above its line are exec'd and its line is eval'd; a line that
\* holds `stmt; expr` is no expression, eval raises SyntaxError.
ExecuteWithExpressionHandling(w, code, held) ==
    IF code # <<>> /\ code[Len(code)].op = "expr" /\ OnSameLine(code[Len(code)])
    THEN ExecAgain(ExecAll(StartRun(w), SubSeq(code, 1, LastLineStart(code, Len(code)) - 1),
                           held),
                   code, held)
    ELSE RunFrom(StartRun(w), code, 1, held)

IsMarimoWidget(v) == v.wchar # 0

Output(ty, id) == [type |-> ty, id |-> id]

\* session.add_widget: self.widgets[wid] = {object, type, properties, value,
\* dependencies, dependents}, the two lists empty. A list that is appended to
\* only when the id is not in it is kept as the set of its ids.
AddWidget(s, wid, v) ==
    [s EXCEPT !.widgets = Put(s.widgets, wid,
                              [obj |-> v.oid, type |-> GetWidgetType(v),
                               properties |-> ExtractWidgetProperties(v),
                               value |-> GetWidgetValue(v),
                               dependencies |-> {}, dependents |-> {}]),
              !.worder = IF wid \in DOMAIN s.widgets THEN s.worder
                         ELSE Append(s.worder, wid)]

\* The positions, in dict order, of the registry entries whose characteristics
\* hash to h.
ExistingWidgets(s, h) ==
    {i \in 1..Len(s.worder) :
        WidgetHash(s.widgets[s.worder[i]].type, s.widgets[s.worder[i]].properties,
                   s.widgets[s.worder[i]].value) = h}

\* The re-use branch: the first such entry gets the new object, its id is returned.
ReuseWidget(s, k, v) ==
    [s |-> [s EXCEPT !.widgets[k].obj = v.oid], out |-> Output("WIDGET", k)]

\* Yields [s, out]: the registry after registering (or re-using) the widget, and
\* the WIDGET output carrying its id.
FormatWidgetResult(s, v) ==
    LET existing == ExistingWidgets(s, v.wchar)
    IN IF existing # {}
       THEN ReuseWidget(s, s.worder[CHOOSE i \in existing : \A j \in existing : i <= j], v)
       ELSE [s |-> AddWidget(s, v.wchar, v), out |-> Output("WIDGET", v.wchar)]

\* _format_matplotlib_figure: the figure saved as a PNG; it stays open.
FormatMatplotlibFigure(o) == [type |-> "EXPRESSION_RESULT", id |-> 0, figure |-> o]

FormatExpressionResult(s, v) ==
    IF IsMarimoWidget(v) THEN FormatWidgetResult(s, v)
    ELSE IF HasSavefig(v) THEN [s |-> s, out |-> FormatMatplotlibFigure(v.oid)]
    ELSE [s |-> s, out |-> Output("EXPRESSION_RESULT", 0)]

\* WidgetDetectorVisitor.widget_calls: visit_Expr lists the call of an
\* expression statement that is a widget constructor call, and its
\* generic_visit reaches visit_Call, which lists the same call again; a call
\* on the right of an assignment is not listed.
RECURSIVE WidgetCalls(_)
WidgetCalls(code) ==
    IF code = <<>> THEN <<>>
    ELSE (IF Head(code).op = "expr" /\ Head(code).expr.kind = "widget"
          THEN <<Head(code).expr, Head(code).expr>> ELSE <<>>)
         \o WidgetCalls(Tail(code))

\* The loop of _detect_widgets_in_code over the listed calls: each is
\* evaluated again, and its value is marshalled unless id(value) is in
\* processed_widgets. f is [s, outs, processed]; used are the identities alive.
RECURSIVE DetectWidgets(_, _, _)

DetectedWidget(f, g, v, calls, used) ==
    DetectWidgets([s |-> g.s, outs |-> Append(f.outs, g.out),
                   processed |-> f.processed \cup {v.oid}], calls, used)

DetectWidget(f, v, calls, used) ==
    IF v.oid \in f.processed THEN DetectWidgets(f, calls, used)
    ELSE DetectedWidget(f, FormatWidgetResult(f.s, v), v, calls, used)

DetectWidgets(f, calls, used) ==
    IF calls = <<>> THEN f
    ELSE DetectWidget(f, Eval(Head(calls), f.s.globals, used \cup WidgetOids(f.s)).val,
                      Tail(calls), used)

DetectWidgetsInCode(f, code, used) ==
    DetectWidgets([s |-> f.s, outs |-> f.outs, processed |-> {}],
                  WidgetCalls(code), used)

\* _capture_matplotlib_figures: one output for every open figure (each has
\* data here), and plt.close on each.
CaptureMatplotlibFigures(figs) == [i \in 1..Len(figs) |-> FormatMatplotlibFigure(figs[i])]

\* The expression result, if there is one: [s, outs].
ResultOutput(r, g) == [s |-> g.s, outs |-> IF r.hasres THEN <<g.out>> ELSE <<>>]

\* The AST sweep, skipped when the expression result was a widget, then the
\* figure scan, skipped when it was a figure: [s, outs, figs].
SweptAndScanned(r, f) ==
    [s |-> f.s,
     outs |-> IF r.hasres /\ HasSavefig(r.res) THEN f.outs
              ELSE f.outs \o CaptureMatplotlibFigures(r.figs),
     figs |-> IF r.hasres /\ HasSavefig(r.res) THEN r.figs ELSE <<>>]

\* execute_cell's try block after the run r that raised nothing, up to the trackers.
Outputs(r, code, f, held) ==
    SweptAndScanned(r, IF r.hasres /\ IsMarimoWidget(r.res) THEN f
                       ELSE DetectWidgetsInCode(f, code, Used(r, held) \cup {r.res.oid}))

\* The finally block: captured stdout is inserted at the head of the list,
\* then captured stderr is inserted at the head, unless the source raised.
InsertStreams(r, outs) ==
    (IF r.stderr /\ ~r.err THEN <<Output("STDERR", 0)>> ELSE <<>>)
    \o (IF r.stdout THEN <<Output("STDOUT", 0)>> ELSE <<>>) \o outs

\* The display snapshot; it also re-binds `mo`.
GetCellState(s) ==
    LET t == SetGlobal(s, "mo", MoObject)
    IN [s |-> t,
        state |-> [n \in DOMAIN t.globals \ UnderscoreNames |-> t.globals[n].repr]]

InitialVariablesPass(w, c, code) ==
    [s |-> CleanupConflictingInitialVariables(w.s, c, code), mods |-> w.mods]

Captured(w) ==
    [s |-> w.s, mods |-> w.mods, pre |-> CapturePreExecutionState(w.s),
     raised |-> w.raised]

\* execute_cell up to the captured pre-execution state, on the pair w = [s, mods]:
\* the retraction of the cell's previous run and the two initialization passes.
\* A KeyError in the last pass is caught; the pre-state is captured either way.
PrepareCell(w, c, code) ==
    Captured(CleanupConflictingInitialImports(
                 InitialVariablesPass(CleanupCellVariables(w, c), c, code), c, code))

\* The three trackers, in the order execute_cell calls them.
Track(s, c, code, pre) ==
    TrackCellWidgets(TrackCellImports(TrackCellVariables(s, c, pre), c, code), c)

\* The tuple execute_cell returns, from the run r, its formatted result f and
\* the display snapshot g.
Result(r, f, g, raised) ==
    [s |-> g.s, mods |-> r.mods, success |-> ~r.err,
     error |-> IF r.err THEN "exception" ELSE "",
     outputs |-> InsertStreams(r, IF r.err THEN <<Output("ERROR", 0)>> ELSE f.outs),
     state |-> g.state, over |-> r.over, cleanup_raised |-> raised,
     figs |-> f.figs, ran |-> r.ran]

Tracked(r, f, c, code, pre, raised) ==
    Result(r, f, GetCellState(Track(f.s, c, code, pre)), raised)

\* A failure path that skips the three trackers.
Respond_NoTrackOnError(r, c, code, pre, raised, held) ==
    IF r.err
    THEN Result(r, [s |-> r.s, outs |-> <<>>, figs |-> r.figs], GetCellState(r.s), raised)
    ELSE Tracked(r,
                 Outputs(r, code,
                         ResultOutput(r, IF r.hasres THEN FormatExpressionResult(r.s, r.res)
                                         ELSE [s |-> r.s, out |-> Output("NONE", 0)]),
                         held),
                 c, code, pre, raised)

\* What follows the run r of the source: format, track, snapshot.
Respond(r, c, code, pre, raised, held) ==
    Tracked(r,
            IF r.err THEN [s |-> r.s, outs |-> <<>>, figs |-> r.figs]
            ELSE Outputs(r, code,
                         ResultOutput(r, IF r.hasres THEN FormatExpressionResult(r.s, r.res)
                                         ELSE [s |-> r.s, out |-> Output("NONE", 0)]),
                         held),
            c, code, pre, raised)

\* execute_cell from the run of the source to the response:
\* [s, mods, success, error, outputs, state, over, cleanup_raised].
RunCell(w, c, code, pre, raised, held) ==
    Respond(ExecuteWithExpressionHandling(
                w, code, held \cup OidsOf(pre) \cup WidgetOids(w.s)),
            c, code, pre, raised, held \cup OidsOf(pre))

\* A rejection that has already dropped the snapshots.
Rejected_SnapshotsDropped(w, msg) ==
    [s |-> [w.s EXCEPT !.cell_globals_snapshot = {}], mods |-> w.mods,
     success |-> FALSE, error |-> msg,
     outputs |-> <<Output("ERROR", 0)>>, state |-> EmptyDict, over |-> FALSE,
     cleanup_raised |-> FALSE, figs |-> figures, ran |-> <<>>]

\* The result of a source the validator rejects: nothing has run.
Rejected(w, msg) ==
    [s |-> w.s, mods |-> w.mods, success |-> FALSE, error |-> msg,
     outputs |-> <<Output("ERROR", 0)>>, state |-> EmptyDict, over |-> FALSE,
     cleanup_raised |-> FALSE, figs |-> figures, ran |-> <<>>]

RunPrepared(p, c, code, held) ==
    RunCell([s |-> p.s, mods |-> p.mods], c, code, p.pre, p.raised, held)

\* MarimoCellExecutor.execute_cell, start to end.
ExecuteCell(w, c, code, held) ==
    IF ~ValidateCode(config, code) THEN Rejected(w, ValidationMessage(config, code))
    ELSE RunPrepared(PrepareCell(w, c, code), c, code, held)

\* ----------------------------------------------------------------- session

\* The session before its notebook source runs. worder is the insertion order
\* of the dict `widgets`; working_dir is TRUE while the session's temporary
\* directory exists on disk.
EmptySession(t) ==
    [globals |-> [n \in {"mo", "marimo"} |-> MoObject],
     gorder |-> <<"mo", "marimo">>,
     cell_variables |-> EmptyDict,
     cell_imports |-> EmptyDict,
     cell_widgets |-> EmptyDict,
     cell_globals_snapshot |-> {},
     widgets |-> EmptyDict,
     worder |-> <<>>,
     working_dir |-> TRUE,
     last_accessed |-> t]

\* The result of the initialization run is discarded; the session stays.
Constructed(e) == [s |-> e.s, mods |-> e.mods]

\* A constructor that does not run the notebook source.
NewSession_Unrun(code, mods, t, held) == [s |-> EmptySession(t), mods |-> mods]

\* NotebookSession.__init__: the SDK handle, then the notebook source run as the
\* cell `initialization`. Yields [s, mods].
NewSession(code, mods, t, held) ==
    IF code = <<>> THEN [s |-> EmptySession(t), mods |-> mods]
    ELSE Constructed(ExecuteCell([s |-> EmptySession(t), mods |-> mods],
                                 "initialization", code, held))

\* ------------------------------------------------------------ widget values

\* request.value of UpdateWidgetValue: the JSON text of a number, the empty
\* string, or a word that is neither JSON nor a number.
RawNumber(k) == [kind |-> "number", num |-> k]
RawEmpty == [kind |-> "empty", num |-> 0]
RawWord == [kind |-> "word", num |-> 0]
RawValues == {RawNumber(k) : k \in WidgetMin..(WidgetMax + 1)} \cup {RawEmpty, RawWord}

\* The ids "widget_<hash>" a request may name.
WidgetIds == 1..(WidgetMax + 2)

\* A coercion that falls back to 0 for every value that is no number.
CoerceNumber_WordIsZero(info, raw) ==
    IF raw.kind = "number" THEN raw.num ELSE 0

\* The servicer's parsing and coercion for a widget of type 'number' whose
\* registry entry is info: json.loads, '' -> 0, float(str) or else the old value.
CoerceNumber(info, raw) ==
    CASE raw.kind = "number" -> raw.num
      [] raw.kind = "empty" -> 0
      [] OTHER -> info.value

\* `widget_obj._value = value` reaches every binding of that object.
SetObjectValue(g, o, value) ==
    [n \in DOMAIN g |-> IF g[n].oid = o /\ g[n].wchar # 0
                        THEN SetWidgetValue(g[n], value) ELSE g[n]]

\* session.update_widget_value: nothing happens for an id not in the registry.
UpdateWidgetValueTo(s, wid, value) ==
    IF wid \notin DOMAIN s.widgets THEN s
    ELSE [s EXCEPT !.widgets[wid].value = value,
                   !.globals = SetObjectValue(s.globals, s.widgets[wid].obj, value)]

\* MarimoExecutorService.UpdateWidgetValue once the session is found:
\* [s, success, error].
UpdateWidgetValue(s, wid, raw) ==
    [s |-> IF wid \in DOMAIN s.widgets
           THEN UpdateWidgetValueTo(s, wid, CoerceNumber(s.widgets[wid], raw))
           ELSE UpdateWidgetValueTo(s, wid, raw.num),
     success |-> TRUE, error |-> ""]

\* ----------------------------------------------------------- session manager

\* An expiry test with twice the timeout.
IsExpired_TwiceTimeout(s, t) == t - s.last_accessed > 2 * SESSION_TIMEOUT_MINUTES

\* NotebookSession.is_expired at time t.
IsExpired(s, t) == t - s.last_accessed > SESSION_TIMEOUT_MINUTES

\* The manager is the pair m = [sessions, heap]: `sessions` is the dict
\* SessionManager.sessions, session id -> reference, and `heap` holds the
\* NotebookSession objects the references denote.
Registered(m) == {m.sessions[k] : k \in DOMAIN m.sessions}

\* Objects nothing refers to any more are collected; kept are references that
\* running requests still hold.
Collect(m, kept) ==
    [m EXCEPT !.heap = [r \in DOMAIN m.heap \cap (Registered(m) \cup kept) |-> m.heap[r]]]

\* NotebookSession.cleanup on the sessions at the references rs.
CleanupDirs(h, rs) ==
    [r \in DOMAIN h |-> IF r \in rs THEN [h[r] EXCEPT !.working_dir = FALSE] ELSE h[r]]

\* end_session for every id in ks: cleanup, then del self.sessions[id].
EndSessions(m, ks) ==
    [sessions |-> DelAll(m.sessions, ks),
     heap |-> CleanupDirs(m.heap, {m.sessions[k] : k \in ks})]

EndSession(m, sid) ==
    IF sid \in DOMAIN m.sessions THEN EndSessions(m, {sid}) ELSE m

\* A sweep that ends nothing.
CleanupExpiredSessions_Nothing(m, t) == m

CleanupExpiredSessions(m, t) ==
    EndSessions(m, {k \in DOMAIN m.sessions : IsExpired(m.heap[m.sessions[k]], t)})

\* get_session: [m, ref], ref = 0 standing for None.
GetSession(m, sid, t) ==
    IF sid \notin DOMAIN m.sessions THEN [m |-> m, ref |-> 0]
    ELSE IF IsExpired(m.heap[m.sessions[sid]], t)
         THEN [m |-> EndSessions(m, {sid}), ref |-> 0]
         ELSE [m |-> [m EXCEPT !.heap[m.sessions[sid]].last_accessed = t],
               ref |-> m.sessions[sid]]

\* Identities of objects alive outside the session object r.
HeldOutside(h, r) ==
    UNION {OidsOf(h[q].globals) \cup WidgetOids(h[q]) : q \in DOMAIN h \ {r}}

NewRef(h) == CHOOSE r \in Refs \ DOMAIN h : \A q \in Refs \ DOMAIN h : r <= q

\* A sweep and checks that leave out the cap.
CreateSessionChecks_NoCap(m, t, sid, nb, kept) ==
    [m |-> Collect(CleanupExpiredSessions(m, t), kept),
     error |-> IF sid \in DOMAIN Collect(CleanupExpiredSessions(m, t), kept).sessions
               THEN "already exists"
               ELSE IF ~VerifyNotebookExists(nb) THEN "not found in MinIO"
               ELSE ""]

\* A sweep and checks that leave out the test for a registered id.
CreateSessionChecks_NoDuplicateTest(m, t, sid, nb, kept) ==
    [m |-> Collect(CleanupExpiredSessions(m, t), kept),
     error |-> IF Cardinality(DOMAIN Collect(CleanupExpiredSessions(m, t), kept).sessions)
                     >= MAX_SESSIONS
               THEN "Maximum number of sessions reached"
               ELSE IF ~VerifyNotebookExists(nb) THEN "not found in MinIO"
               ELSE ""]

\* create_session up to the point where the session object is constructed:
\* the sweep and the checks. error = "" when they all pass.
CreateSessionChecks(m, t, sid, nb, kept) ==
    LET m1 == Collect(CleanupExpiredSessions(m, t), kept)
    IN [m |-> m1,
        error |-> IF sid \in DOMAIN m1.sessions THEN "already exists"
                  ELSE IF Cardinality(DOMAIN m1.sessions) >= MAX_SESSIONS
                       THEN "Maximum number of sessions reached"
                  ELSE IF ~VerifyNotebookExists(nb) THEN "not found in MinIO"
                  ELSE ""]

\* self.sessions[sid] = session, for the session n = [s, mods] held at r.
Register(m, sid, r, n, kept) ==
    [m |-> Collect([sessions |-> Put(m.sessions, sid, r), heap |-> Put(m.heap, r, n.s)],
                   kept),
     mods |-> n.mods, error |-> ""]

\* The rest of create_session: construct the session, self.sessions[sid] = session.
\* extra are identities kept alive from outside the heap.
CreateSessionInsert(m, mods, t, sid, nb, kept, extra) ==
    Register(m, sid, NewRef(m.heap),
             NewSession(GetNotebookContent(nb), mods, t, HeldOutside(m.heap, 0) \cup extra),
             kept)

CreateSessionAfter(k, mods, t, sid, nb, kept, extra) ==
    IF k.error # "" THEN [m |-> k.m, mods |-> mods, error |-> k.error]
    ELSE CreateSessionInsert(k.m, mods, t, sid, nb, kept, extra)

\* SessionManager.create_session, start to end: [m, mods, error].
CreateSession(m, mods, t, sid, nb, kept, extra) ==
    CreateSessionAfter(CreateSessionChecks(m, t, sid, nb, kept),
                       mods, t, sid, nb, kept, extra)

\* ------------------------------------------------------- requests in flight

M == [sessions |-> sessions, heap |-> heap]

\* resp.error is "" | a validation message | "exception" | a manager error message;
\* resp.before is the cell's tracked binding set when the call arrived;
\* resp.wid and resp.raw are the widget id and the value of an UpdateWidgetValue
\* request that reached a session.
NoResp == [op |-> "none", sid |-> "", cell |-> "", success |-> TRUE, error |-> "",
           outputs |-> <<>>, before |-> {}, wid |-> 0, raw |-> [kind |-> "none", num |-> 0]]

\* The streams and the directory the process starts with: the interpreter's
\* own stream objects and the service directory (0; a session's directory is
\* named by the session's reference).
ProcessStart == [stdout |-> "sys", stderr |-> "sys", cwd |-> 0]

\* execute_cell, lines 65-77: chdir into the session's directory if it exists,
\* and point both streams at the buffers of the request served by thread t.
Redirect(p, s, ref, t) ==
    [stdout |-> t, stderr |-> t, cwd |-> IF s.working_dir THEN ref ELSE p.cwd]

\* os.chdir(d) succeeds.
CanChdir(h, d) == d = 0 \/ (d \in DOMAIN h /\ h[d].working_dir)

\* The finally block: os.chdir(original_cwd), then both streams; when chdir
\* raises, the streams stay as they are.
Restore(p, h, saved) == IF CanChdir(h, saved.cwd) THEN saved ELSE p

Idle == [pc |-> "idle", sid |-> "", ref |-> 0, cell |-> "", code |-> <<>>,
         pre |-> EmptyDict, raised |-> FALSE, before |-> {}, nb |-> "",
         saved |-> ProcessStart]

AllIdle == \A t \in Threads : threads[t].pc = "idle"

\* References that running requests hold, and the identities their captured
\* pre-execution states keep alive.
HeldRefs(th) == {th[t].ref : t \in Threads} \ {0}
HeldByThreads(th) == UNION {OidsOf(th[t].pre) : t \in Threads}

ExecuteResponse(sid, c, e, before) ==
    [NoResp EXCEPT !.op = "execute", !.sid = sid, !.cell = c, !.success = e.success,
                   !.error = e.error, !.outputs = e.outputs, !.before = before]

ManagerResponse(op, sid, error) ==
    [NoResp EXCEPT !.op = op, !.sid = sid, !.success = (error = ""), !.error = error]

\* ------------------------------------------------ RPCs served one at a time

\* The servicer returns the executor's result e for the session at ref.
Executed(m, ref, sid, c, e, before) ==
    /\ ~e.over
    /\ sessions' = m.sessions
    /\ heap' = [m.heap EXCEPT ![ref] = e.s]
    /\ sys_modules' = e.mods
    /\ proc' = IF e.error \in ValidationErrors THEN proc
               ELSE Restore(Redirect(proc, e.s, ref, "t1"), heap', proc)
    /\ figures' = e.figs
    /\ resp' = ExecuteResponse(sid, c, e, before)

\* ExecuteCell once get_session has answered g.
ExecuteOn(g, sid, c, code) ==
    IF g.ref = 0
    THEN /\ sessions' = g.m.sessions
         /\ heap' = Collect(g.m, {}).heap
         /\ sys_modules' = sys_modules
         /\ proc' = proc
         /\ figures' = figures
         /\ resp' = [ManagerResponse("execute", sid, "Session not found")
                        EXCEPT !.cell = c]
    ELSE Executed(g.m, g.ref, sid, c,
                  ExecuteCell([s |-> g.m.heap[g.ref], mods |-> sys_modules], c, code,
                              HeldOutside(g.m.heap, g.ref)),
                  GetCellVariables(g.m.heap[g.ref], c))

\* The ExecuteCell RPC, run to completion.
DoExecuteCell(sid, c, code) ==
    /\ AllIdle
    /\ ncalls < MaxCalls
    /\ ncalls' = ncalls + 1
    /\ UNCHANGED <<now, threads, config>>
    /\ ExecuteOn(GetSession(M, sid, now), sid, c, code)

Started(k, sid) ==
    /\ sessions' = k.m.sessions
    /\ heap' = k.m.heap
    /\ sys_modules' = k.mods
    /\ resp' = ManagerResponse("start", sid, k.error)

\* The StartSession RPC, run to completion.
DoStartSession(sid, nb) ==
    /\ AllIdle
    /\ Started(CreateSession(M, sys_modules, now, sid, nb, {}, {}), sid)
    /\ UNCHANGED <<now, threads, ncalls, proc, config, figures>>

\* The EndSession RPC: it reports success whether or not the id was registered.
DoEndSession(sid) ==
    LET m1 == Collect(EndSession(M, sid), HeldRefs(threads))
    IN /\ sessions' = m1.sessions
       /\ heap' = m1.heap
       /\ resp' = ManagerResponse("end", sid, "")
       /\ UNCHANGED <<sys_modules, now, threads, ncalls, proc, config, figures>>

\* The GetSessionState RPC; `exists` is reported as success.
DoGetSessionState(sid) ==
    LET g == GetSession(M, sid, now)
        m1 == Collect(g.m, HeldRefs(threads))
    IN /\ AllIdle
       /\ sessions' = m1.sessions
       /\ heap' = m1.heap
       /\ resp' = ManagerResponse("state", sid, IF g.ref = 0 THEN "not found" ELSE "")
       /\ UNCHANGED <<sys_modules, now, threads, ncalls, proc, config, figures>>

Updated(m, ref, sid, wid, raw, u) ==
    /\ sessions' = m.sessions
    /\ heap' = [m.heap EXCEPT ![ref] = u.s]
    /\ resp' = [ManagerResponse("update", sid, u.error)
                   EXCEPT !.success = u.success, !.wid = wid, !.raw = raw]

UpdateOn(g, sid, wid, raw) ==
    IF g.ref = 0
    THEN /\ sessions' = g.m.sessions
         /\ heap' = Collect(g.m, {}).heap
         /\ resp' = ManagerResponse("update", sid, "Session not found")
    ELSE Updated(g.m, g.ref, sid, wid, raw, UpdateWidgetValue(g.m.heap[g.ref], wid, raw))

\* The UpdateWidgetValue RPC, run to completion.
DoUpdateWidgetValue(sid, wid, raw) ==
    /\ AllIdle
    /\ UpdateOn(GetSession(M, sid, now), sid, wid, raw)
    /\ UNCHANGED <<sys_modules, now, threads, ncalls, proc, config, figures>>

\* A minute passes.
Tick ==
    /\ now < MaxTime
    /\ now' = now + 1
    /\ UNCHANGED <<sessions, heap, sys_modules, threads, resp, ncalls, proc, config, figures>>

\* A method of the session object called on the session the manager holds;
\* resp.before is the cell's tracked binding set when the call arrived.
OnSession(sid, op, c, s) ==
    /\ AllIdle
    /\ sid \in DOMAIN sessions
    /\ heap' = [heap EXCEPT ![sessions[sid]] = s]
    /\ resp' = [NoResp EXCEPT !.op = op, !.sid = sid, !.cell = c,
                              !.before = GetCellVariables(heap[sessions[sid]], c)]
    /\ UNCHANGED <<sessions, sys_modules, now, threads, ncalls, proc, config, figures>>

DoForceCleanup(sid, c) ==
    /\ sid \in DOMAIN sessions
    /\ OnSession(sid, "force_cleanup", c,
                 ForceCleanupAllCellVariables(heap[sessions[sid]], c))

DoAddWidgetDependency(sid, a, b) ==
    /\ sid \in DOMAIN sessions
    /\ OnSession(sid, "add_widget_dependency", "",
                 AddWidgetDependency(heap[sessions[sid]], a, b))

DoOptimize(sid) ==
    /\ sid \in DOMAIN sessions
    /\ OnSession(sid, "optimize", "", OptimizeSessionPerformance(heap[sessions[sid]]))

\* ------------------------------------ RPCs on the worker threads, in steps

OtherThreads(t) == [u \in Threads |-> IF u = t THEN Idle ELSE threads[u]]

\* The thread keeps what execute_cell holds in locals while the source runs.
Running(sid, ref, c, code, p, before) ==
    [pc |-> "run", sid |-> sid, ref |-> ref, cell |-> c, code |-> code,
     pre |-> p.pre, raised |-> p.raised, before |-> before, nb |-> "",
     saved |-> proc]

Prepared(t, m, ref, sid, c, code, p, before) ==
    /\ heap' = [m.heap EXCEPT ![ref] = p.s]
    /\ sys_modules' = p.mods
    /\ threads' = [threads EXCEPT ![t] = Running(sid, ref, c, code, p, before)]
    /\ proc' = Redirect(proc, p.s, ref, t)
    /\ resp' = resp

BeginOn(t, g, w, sid, c, code) ==
    /\ sessions' = g.m.sessions
    /\ IF g.ref = 0
       THEN /\ heap' = Collect(g.m, HeldRefs(threads)).heap
            /\ resp' = [ManagerResponse("execute", sid, "Session not found")
                           EXCEPT !.cell = c]
            /\ UNCHANGED <<sys_modules, threads, proc>>
       ELSE IF ~ValidateCode(config, code)
       THEN /\ heap' = g.m.heap
            /\ resp' = ExecuteResponse(sid, c, Rejected(w, ValidationMessage(config, code)),
                                    GetCellVariables(w.s, c))
            /\ UNCHANGED <<sys_modules, threads, proc>>
       ELSE Prepared(t, g.m, g.ref, sid, c, code, PrepareCell(w, c, code),
                     GetCellVariables(w.s, c))

SessionOf(g) ==
    [s |-> IF g.ref = 0 THEN EmptySession(0) ELSE g.m.heap[g.ref], mods |-> sys_modules]

\* Thread t takes an ExecuteCell request as far as the redirected streams.
ExecBegin(t, sid, c, code) ==
    /\ threads[t].pc = "idle"
    /\ ncalls < MaxCalls
    /\ ncalls' = ncalls + 1
    /\ UNCHANGED <<now, config, figures>>
    /\ BeginOn(t, GetSession(M, sid, now), SessionOf(GetSession(M, sid, now)), sid, c, code)

\* The servicer's answer when execute_cell raised out of its finally block.
ChdirFailed(e) == [e EXCEPT !.success = FALSE, !.error = "chdir", !.outputs = <<>>]

Finished(t, h, e) ==
    /\ ~e.over
    /\ threads' = [threads EXCEPT ![t] = Idle]
    /\ proc' = Restore(proc, heap, h.saved)
    /\ heap' = Collect([sessions |-> sessions, heap |-> [heap EXCEPT ![h.ref] = e.s]],
                       HeldRefs(threads')).heap
    /\ sys_modules' = e.mods
    /\ figures' = e.figs
    /\ resp' = ExecuteResponse(h.sid, h.cell,
                               IF CanChdir(heap, h.saved.cwd) THEN e ELSE ChdirFailed(e),
                               h.before)

RunOf(t, h) ==
    RunCell([s |-> heap[h.ref], mods |-> sys_modules], h.cell, h.code, h.pre, h.raised,
            HeldOutside(heap, h.ref) \cup HeldByThreads(OtherThreads(t)))

\* Thread t runs the source, tracks the result and returns the response.
ExecFinish(t) ==
    /\ threads[t].pc = "run"
    /\ Finished(t, threads[t], RunOf(t, threads[t]))
    /\ UNCHANGED <<sessions, now, ncalls, config>>

Checked(t, k, sid, nb) ==
    /\ sessions' = k.m.sessions
    /\ heap' = k.m.heap
    /\ IF k.error # ""
       THEN resp' = ManagerResponse("start", sid, k.error) /\ threads' = threads
       ELSE /\ threads' = [threads EXCEPT ![t] =
                              [Idle EXCEPT !.pc = "insert", !.sid = sid, !.nb = nb]]
            /\ resp' = resp

\* Thread t takes a StartSession request through the sweep and the checks.
StartBegin(t, sid, nb) ==
    /\ threads[t].pc = "idle"
    /\ Checked(t, CreateSessionChecks(M, now, sid, nb, HeldRefs(threads)), sid, nb)
    /\ UNCHANGED <<sys_modules, now, ncalls, proc, config, figures>>

\* Thread t constructs the session and stores it in the registry.
StartFinish(t) ==
    /\ threads[t].pc = "insert"
    /\ Refs \ DOMAIN heap # {}
    /\ threads' = [threads EXCEPT ![t] = Idle]
    /\ Started(CreateSessionInsert(M, sys_modules, now, threads[t].sid, threads[t].nb,
                                   HeldRefs(OtherThreads(t)), HeldByThreads(threads)),
               threads[t].sid)
    /\ UNCHANGED <<now, ncalls, proc, config, figures>>

\* ---------------------------------------------------------- specifications

InitRest ==
    /\ proc = ProcessStart
    /\ now = 0
    /\ threads = [t \in Threads |-> Idle]
    /\ resp = NoResp
    /\ ncalls = 0

\* One session, its RPCs served one at a time.
InitWith(n) ==
    /\ sessions = [k \in {"s1"} |-> 1]
    /\ heap = [r \in {1} |-> n.s]
    /\ sys_modules = n.mods

\* Config as shipped.
ShippedConfig == [allowed_imports |-> ALLOWED_IMPORTS, blocked_modules |-> BLOCKED_MODULES]

Init ==
    /\ config = ShippedConfig
    /\ figures = <<>>
    /\ \E code \in InitSources : InitWith(NewSession(code, EmptyDict, 0, {}))
    /\ InitRest

Next ==
    \E c \in Cells \ {"initialization"}, code \in Sources : DoExecuteCell("s1", c, code)

Spec == Init /\ [][Next]_vars

\* The sources of the cells that build and display widgets.
WidgetSources ==
    {<<>>, <<Raise>>, <<ExprStmt(EWidget(1, ""))>>, <<ExprStmt(EWidget(2, ""))>>,
     <<Assign("x", EWidget(1, "id")), ExprStmt(ERef("x"))>>}

\* One session whose cells display widgets and whose client moves them.
InitWidget ==
    /\ config = ShippedConfig
    /\ figures = <<>>
    /\ InitWith(NewSession(<<>>, EmptyDict, 0, {}))
    /\ InitRest

NextWidget ==
    \/ \E c \in Cells \ {"initialization"}, code \in WidgetSources :
          DoExecuteCell("s1", c, code)
    \/ \E wid \in WidgetIds, raw \in RawValues : DoUpdateWidgetValue("s1", wid, raw)

SpecWidget == InitWidget /\ [][NextWidget]_vars

\* The session manager from an empty registry, its RPCs served one at a time.
InitMgr ==
    /\ config = ShippedConfig
    /\ figures = <<>>
    /\ sessions = EmptyDict
    /\ heap = EmptyDict
    /\ sys_modules = EmptyDict
    /\ InitRest

NextMgr ==
    \/ \E sid \in SessionIds, nb \in NotebookPaths : DoStartSession(sid, nb)
    \/ \E sid \in SessionIds : DoGetSessionState(sid)
    \/ \E sid \in SessionIds : DoEndSession(sid)
    \/ Tick

SpecMgr == InitMgr /\ [][NextMgr]_vars

\* The session manager with StartSession requests on concurrent worker threads.
NextMgrConc ==
    \/ \E t \in Threads, sid \in SessionIds, nb \in NotebookPaths : StartBegin(t, sid, nb)
    \/ \E t \in Threads : StartFinish(t)
    \/ \E sid \in SessionIds : DoEndSession(sid)

SpecMgrConc == InitMgr /\ [][NextMgrConc]_vars

\* One session, its ExecuteCell and EndSession requests on concurrent threads.
NextConc ==
    \/ \E t \in Threads, c \in Cells \ {"initialization"}, code \in FewSources :
          ExecBegin(t, "s1", c, code)
    \/ \E t \in Threads : ExecFinish(t)
    \/ DoEndSession("s1")

SpecConc == Init /\ [][NextConc]_vars

\* Two sessions in one process, their RPCs served one at a time.
InitIsoWith(a, b) ==
    /\ sessions = [k \in {"s1", "s2"} |-> IF k = "s1" THEN 1 ELSE 2]
    /\ heap = [r \in {1, 2} |-> IF r = 1 THEN a.s ELSE b.s]
    /\ sys_modules = b.mods

SecondAfter(a, code) ==
    InitIsoWith(a, NewSession(code, a.mods, 0, OidsOf(a.s.globals)))

InitIso ==
    /\ config = ShippedConfig
    /\ figures = <<>>
    /\ \E code1, code2 \in InitSources :
          SecondAfter(NewSession(code1, EmptyDict, 0, {}), code2)
    /\ InitRest

NextIso ==
    \E sid \in {"s1", "s2"}, c \in Cells \ {"initialization"}, code \in FewSources :
        DoExecuteCell(sid, c, code)

SpecIso == InitIso /\ [][NextIso]_vars

\* One session under every configuration of the two import sets over a few
\* module names; its cells import one module each.
ModuleUniverse == {"numpy", "os", "socket"}
ImportSources == {<<>>} \cup {<<Import(m, "np")>> : m \in ModuleUniverse}

InitVal ==
    /\ config \in [allowed_imports : SUBSET ModuleUniverse,
                    blocked_modules : SUBSET ModuleUniverse]
    /\ figures = <<>>
    /\ InitWith(NewSession(<<>>, EmptyDict, 0, {}))
    /\ InitRest

NextVal == \E code \in ImportSources : DoExecuteCell("s1", "c1", code)

SpecVal == InitVal /\ [][NextVal]_vars

\* One session whose cells are submitted sources at, under and over the length
\* cap, some of which would also fail the parse or the import rule.
LengthSources ==
    {<<Comment(MAX_CODE_LENGTH)>>, <<Comment(MAX_CODE_LENGTH + 1)>>,
     <<Comment(MAX_CODE_LENGTH + 1), Unparsable>>,
     <<Comment(MAX_CODE_LENGTH + 1), Import("os", "np")>>,
     <<Comment(MAX_CODE_LENGTH - 20), Assign("x", ELit(1))>>,
     <<Comment(MAX_CODE_LENGTH - 19), Assign("x", ELit(2))>>,
     <<Comment(MAX_CODE_LENGTH - 20), Assign("y", EInc("x"))>>,
     <<Comment(MAX_CODE_LENGTH - 20), Import("numpy", "np")>>,
     <<Unparsable>>, <<Import("os", "np")>>}

NextLen ==
    \E c \in Cells \ {"initialization"}, code \in LengthSources :
        DoExecuteCell("s1", c, code)

SpecLen == InitWidget /\ [][NextLen]_vars

\* One session whose notebook imports pyplot, and whose cells draw, print,
\* warn, build widgets and end in expressions, alone or after a `;`.
OutputSources ==
    {<<Assign("y", ELit(1))>>,
     <<ExprStmt(EFigure)>>,
     <<ExprStmt(EPlot), Assign("z", ELit(1))>>,
     <<PrintStmt, WarnStmt, ExprStmt(ERef("plt"))>>,
     <<WarnStmt, PrintStmt>>,
     <<PrintStmt, WarnStmt, Raise>>,
     <<ExprStmt(EWidget(1, ""))>>,
     <<ExprStmt(EWidget(1, "")), Assign("z", ELit(1))>>,
     <<Assign("y", EInc("y")), ExprStmt(ERef("y"))>>,
     <<Assign("z", ELit(1)), SameLine(ExprStmt(ERef("z")))>>,
     <<Assign("y", EInc("y")), Assign("z", ELit(1)), SameLine(ExprStmt(ERef("z")))>>}

InitOutput ==
    /\ config = ShippedConfig
    /\ figures = <<>>
    /\ InitWith(NewSession(<<Import("matplotlib", "plt")>>, EmptyDict, 0, {}))
    /\ InitRest

NextOutput ==
    \E c \in Cells \ {"initialization"}, code \in OutputSources :
        DoExecuteCell("s1", c, code)

SpecOutput == InitOutput /\ [][NextOutput]_vars

\* One session whose cells import modules, under a public or an underscore
\* alias, and bind beside the alias a plain value or a widget that they display.
AliasSources ==
    {<<>>, <<Import("numpy", "np")>>, <<Assign("x", ELit(1))>>,
     <<Import("pandas", "pd"), Assign("x", ENew(1))>>, <<Import("pandas", "_p")>>,
     <<Import("pandas", "pd"), Assign("y", EWidget(1, "id")), ExprStmt(ERef("y"))>>}

NextAlias ==
    \E c \in Cells \ {"initialization"}, code \in AliasSources :
        DoExecuteCell("s1", c, code)

SpecAlias == InitWidget /\ [][NextAlias]_vars

\* Two sessions in one process, their ExecuteCell requests on concurrent
\* threads, never two at once on the same session; one source for each exit
\* path of execute_cell.
ExitPathSources ==
    {<<Assign("x", ELit(1))>>, <<Raise>>, <<Import("os", "np")>>}

InitProc ==
    /\ config = ShippedConfig
    /\ figures = <<>>
    /\ InitIsoWith(NewSession(<<>>, EmptyDict, 0, {}), NewSession(<<>>, EmptyDict, 0, {}))
    /\ InitRest

NextProc ==
    \/ \E t \in Threads, sid \in {"s1", "s2"}, code \in ExitPathSources :
          /\ \A u \in Threads : threads[u].sid # sid
          /\ ExecBegin(t, sid, "c1", code)
    \/ \E t \in Threads : ExecFinish(t)

SpecProc == InitProc /\ [][NextProc]_vars

\* One session whose cells share bindings, import modules and display widgets,
\* and whose owner calls the maintenance methods between the requests.
MaintSources ==
    {<<>>, <<Assign("x", ELit(1))>>, <<Assign("x", ENew(1)), Assign("y", ELit(1))>>,
     <<Import("pandas", "_p")>>, <<Import("numpy", "np")>>,
     <<Assign("x", EWidget(1, "id")), ExprStmt(ERef("x"))>>, <<Raise>>}

NextMaint ==
    \/ \E c \in Cells \ {"initialization"}, code \in MaintSources :
          DoExecuteCell("s1", c, code)
    \/ \E c \in Cells : DoForceCleanup("s1", c)
    \/ DoOptimize("s1")

SpecMaint == Init /\ [][NextMaint]_vars

\* One session whose cells display widgets, whose client moves them and whose
\* owner declares dependencies between the registered widgets.
DepSources ==
    {<<ExprStmt(EWidget(1, ""))>>, <<ExprStmt(EWidget(2, ""))>>,
     <<Assign("x", EWidget(1, "id")), ExprStmt(ERef("x"))>>, <<Assign("x", ELit(1))>>}

NextDeps ==
    \/ \E c \in Cells \ {"initialization"}, code \in DepSources :
          DoExecuteCell("s1", c, code)
    \/ \E wid \in 1..2, raw \in {RawNumber(0), RawNumber(1)} :
          DoUpdateWidgetValue("s1", wid, raw)
    \/ \E a, b \in 1..2 : DoAddWidgetDependency("s1", a, b)

SpecDeps == InitWidget /\ [][NextDeps]_vars

\* The session manager started on notebooks whose source fails.
NextStart ==
    \/ \E sid \in SessionIds, nb \in FailingPaths : DoStartSession(sid, nb)
    \/ \E sid \in SessionIds : DoEndSession(sid)
    \/ Tick

SpecStart == InitMgr /\ [][NextStart]_vars

\* ------------------------------------------------------------------ claims

S1 == heap[sessions["s1"]]

Owners(s, n) == {c \in DOMAIN s.cell_variables : n \in s.cell_variables[c]}
IsPublic(n) == n \notin UnderscoreNames
LiveTrackable(s) == {n \in DOMAIN s.globals : IsPublic(n) /\ ~IsProtectedVariable(n)}

Unlisted(s) == {n \in LiveTrackable(s) : Owners(s, n) = {}}

\* C1 (as stated): every live public non-protected binding is listed in the
\* tracked set of exactly one cell record, never two and never none.
C1_ExactlyOneRecord ==
    \A n \in LiveTrackable(S1) : Cardinality(Owners(S1, n)) = 1

\* C1 (amended): a live public non-protected binding is listed by at least one
\* cell record, and possibly by several, unless the import-alias heuristic
\* refused to retract it when the cell listing it was re-executed: a binding
\* is unlisted only if it was already unlisted or the call's cell listed it and
\* the heuristic counts it as referenced by another cell.
C1_ListedUnlessAliasKept ==
    /\ Unlisted(S1) = {}
    /\ [][\A n \in Unlisted(S1') :
             \/ n \in Unlisted(S1)
             \/ /\ n \in resp'.before
                /\ IsVariableReferencedByOtherCells(S1, resp'.cell, n)]_vars

\* C1 witness: after a call, one binding is listed by two records and another
\* one is live and listed by none.
C1_Witness ==
    /\ resp.op = "execute"
    /\ \E n \in LiveTrackable(S1) : Cardinality(Owners(S1, n)) >= 2
    /\ Unlisted(S1) # {}

W1 == [s |-> S1, mods |-> sys_modules]

ListedByOther(s, c, n) ==
    \E d \in DOMAIN s.cell_variables \ {c} : n \in s.cell_variables[d]

\* C2: the pre-execution retraction of a cell deletes a binding only if no
\* other cell record lists it and it is not protected.
C2_RetractionSparesOthers ==
    \A c \in Cells :
        \A n \in DOMAIN S1.globals \ DOMAIN CleanupCellVariables(W1, c).s.globals :
            ~ListedByOther(S1, c, n) /\ ~IsProtectedVariable(n)


\* C3 (as stated): re-running a cell leaves no live binding that the cell's
\* record listed before and does not list afterwards, unless another cell
\* record lists it.
C3_NoStaleBinding ==
    [][resp'.op = "execute" =>
         \A n \in resp'.before \cap DOMAIN S1'.globals :
             \/ n \in GetCellVariables(S1', resp'.cell)
             \/ ListedByOther(S1, resp'.cell, n)]_vars

\* C3 (amended): re-running a cell with a source that passes validation leaves
\* no live binding that the cell's record listed before and does not list
\* afterwards, unless another cell record lists it or the import-alias
\* heuristic counts it as referenced by another cell.
C3_NoStaleUnlessAliasKept ==
    [][(resp'.op = "execute" /\ resp'.error \notin ValidationErrors) =>
         \A n \in resp'.before \cap DOMAIN S1'.globals :
             \/ n \in GetCellVariables(S1', resp'.cell)
             \/ ListedByOther(S1, resp'.cell, n)
             \/ IsVariableReferencedByOtherCells(S1, resp'.cell, n)]_vars

\* C3 witness: a re-run has dropped a binding of the cell's previous version.
C3_Witness ==
    /\ resp.op = "execute"
    /\ resp.error \notin ValidationErrors
    /\ \E n \in resp.before : n \notin DOMAIN S1.globals

\* What a client observes of the namespace: the public non-protected bindings
\* with their text representations.
PublicView(s) == [n \in LiveTrackable(s) |-> s.globals[n].repr]

Unchanged(e1, e2) ==
    (e1.success /\ ~e1.over /\ ~e2.over) => PublicView(e2.s) = PublicView(e1.s)

\* The result e1 of a call, against the result of the same call made again.
SameView(e1, c, code) ==
    Unchanged(e1, ExecuteCell([s |-> e1.s, mods |-> e1.mods], c, code, {}))

\* C4: after a successful execute(C, S), executing (C, S) again yields the same
\* public non-protected bindings with the same text representations.
C4_Idempotent ==
    \A c \in Cells \ {"initialization"}, code \in Sources :
        SameView(ExecuteCell(W1, c, code, {}), c, code)

\* C5: no step removes a protected name from the namespace.
C5_ProtectedStay ==
    [][\A n \in DOMAIN S1.globals :
          IsProtectedVariable(n) => n \in DOMAIN S1'.globals]_vars

RejectedAtCap(swept, k) ==
    Cardinality(DOMAIN swept) >= MAX_SESSIONS => k.error # "" /\ k.m.sessions = swept

\* C8: under sequential start, get, end and sweep the registry never holds more
\* sessions than the cap, and a start that finds the registry at the cap after
\* its sweep is rejected and registers nothing.
C8_CapHolds ==
    /\ Cardinality(DOMAIN sessions) <= MAX_SESSIONS
    /\ \A sid \in SessionIds, nb \in NotebookPaths :
          RejectedAtCap(CleanupExpiredSessions(M, now).sessions,
                        CreateSession(M, sys_modules, now, sid, nb, {}, {}))

\* C8 witness: a start has just been rejected at the cap.
C8_Witness ==
    /\ resp.op = "start"
    /\ resp.error = "Maximum number of sessions reached"
    /\ Cardinality(DOMAIN sessions) = MAX_SESSIONS

\* C9: with StartSession requests interleaving on the worker threads the
\* registry never holds more sessions than the cap and a registered session id
\* is never overwritten with another session.
C9_StartIsAtomic ==
    /\ [](Cardinality(DOMAIN sessions) <= MAX_SESSIONS)
    /\ [][\A sid \in DOMAIN sessions \cap DOMAIN sessions' :
             sessions'[sid] = sessions[sid]]_vars

\* C6: within one session at most one cell execution is in progress.
C6_OneExecutionAtATime ==
    \A t, u \in Threads :
        (t # u /\ threads[t].pc = "run" /\ threads[u].pc = "run")
            => threads[t].ref # threads[u].ref

\* C7: no ExecuteCell request runs its source on a session that has been ended:
\* when a request runs and returns, its session is still the registered one.
C7_NoRunAfterEnd ==
    [][\A t \in Threads :
          (threads[t].pc = "run" /\ threads'[t].pc = "idle")
              => /\ threads[t].sid \in DOMAIN sessions
                 /\ sessions[threads[t].sid] = threads[t].ref]_vars

\* The modules a session's cells have imported, as sys.modules holds them.
LoadedModules(s) ==
    [m \in (UNION {s.cell_imports[c] : c \in DOMAIN s.cell_imports})
              \cap DOMAIN sys_modules |-> sys_modules[m]]

Observed(sid) ==
    [session |-> heap[sessions[sid]], modules |-> LoadedModules(heap[sessions[sid]])]

\* C10: a request on one session changes nothing another session observes:
\* its namespace, trackers, widget registry and loaded-module table.
C10_SessionsIsolated ==
    [][\A sid \in DOMAIN sessions :
          (resp'.sid # sid /\ sid \in DOMAIN sessions')
              => Observed(sid)' = Observed(sid)]_vars

\* C11: whenever no cell execution is in progress, standard output, standard
\* error and the working directory are the ones the process started with, on
\* every exit path and for every interleaving of executions in different
\* sessions.
C11_StreamsRestored == AllIdle => proc = ProcessStart

\* The session apart from the time of its last lookup.
Content(s) == [s EXCEPT !.last_accessed = 0]

\* C12: an ExecuteCell whose source the validator rejects returns success =
\* false with exactly one output, of kind ERROR, and leaves the namespace, the
\* tracker maps, the snapshots, the widget registry and sys.modules as they were.
C12_RejectionChangesNothing ==
    [][(resp'.op = "execute" /\ resp'.error \in ValidationErrors) =>
         /\ ~resp'.success
         /\ Len(resp'.outputs) = 1
         /\ resp'.outputs[1].type = "ERROR"
         /\ Content(S1') = Content(S1)
         /\ sys_modules' = sys_modules]_vars

\* C12 witness: a source has just been rejected for a cell whose previous
\* version left tracked bindings and a snapshot.
C12_Witness ==
    /\ resp.op = "execute"
    /\ resp.error \in ValidationErrors
    /\ resp.before # {}
    /\ resp.cell \in S1.cell_globals_snapshot

\* C13 (as stated): for every configuration of the two sets, a source whose
\* only import has top-level module m is accepted iff m is in the allowed set.
C13_AllowedSetDecides ==
    \A m \in ModuleUniverse :
        ValidateCode(config, <<Import(m, "np")>>) <=> m \in config.allowed_imports

\* C13 (amended): such a source is accepted iff m is in the allowed set and not
\* in the blocked set.
C13_AllowedAndNotBlocked ==
    \A m \in ModuleUniverse :
        ValidateCode(config, <<Import(m, "np")>>)
            <=> (m \in config.allowed_imports /\ m \notin config.blocked_modules)

\* C13 witness: with every module allowed, an import has just been rejected:
\* its module is in both sets.
C13_Witness ==
    /\ resp.op = "execute"
    /\ resp.error \in ValidationErrors
    /\ config.allowed_imports = ModuleUniverse

\* get_cell_imports: self.cell_imports.get(cell_id, set()).
GetCellImports(s, c) ==
    IF c \in DOMAIN s.cell_imports THEN s.cell_imports[c] ELSE {}

\* The public non-protected bindings of t that s lacks or binds to another object.
CreatedOrRebound(s, t) ==
    {n \in LiveTrackable(t) :
        n \notin DOMAIN s.globals \/ t.globals[n].oid # s.globals[n].oid}

HasOutput(outputs, type) == \E i \in 1..Len(outputs) : outputs[i].type = type

TrackedAfterError(s, c, code, e) ==
    e.error = "exception" =>
        /\ ~e.success
        /\ HasOutput(e.outputs, "ERROR")
        /\ CreatedOrRebound(s, e.s) \subseteq GetCellVariables(e.s, c)
        /\ GetCellImports(e.s, c) = {m \in ImportedModules(code) : ~IsProtectedModule(m)}

\* C14: when the cell's code raises, ExecuteCell answers success=false with an
\* ERROR output, every binding the cell created or rebound (a name that is new
\* or now refers to another object) is listed in the cell's tracked set, and
\* the cell's import set is the one its source gives. Stated of every
\* ExecuteCell request that can arrive in the state.
C14_TrackersRunOnError ==
    ncalls < MaxCalls =>
    \A c \in Cells \ {"initialization"}, code \in Sources :
        TrackedAfterError(S1, c, code,
                          ExecuteCell(W1, c, code, HeldOutside(heap, sessions["s1"])))

\* C14 witness: a call whose source raised has left the cell with a tracked
\* binding and a recorded import.
C14_Witness ==
    /\ resp.op = "execute"
    /\ resp.error = "exception"
    /\ ~resp.success
    /\ GetCellVariables(S1, resp.cell) # {}
    /\ GetCellImports(S1, resp.cell) # {}

WarnedIfRaised(e) == e.cleanup_raised => HasOutput(e.outputs, "WARNING")

\* C15: whenever the tracker's own bookkeeping fails during a call (here the
\* initialisation-conflict pass raising KeyError), the returned output list
\* holds a WARNING output.
C15_TrackerFailureWarned ==
    \A c \in Cells \ {"initialization"}, code \in Sources :
        WarnedIfRaised(ExecuteCell(W1, c, code, HeldOutside(heap, sessions["s1"])))

\* The cell ids with a non-empty tracked binding set.
TrackedCells(s) == {c \in DOMAIN s.cell_variables : s.cell_variables[c] # {}}

\* C16: after every completed ExecuteCell a snapshot is stored for exactly the
\* cell ids that have a non-empty tracked binding set.
C16_SnapshotIffTracked ==
    (resp.op = "execute" /\ resp.error \in {"", "exception"}) =>
        S1.cell_globals_snapshot = TrackedCells(S1)

\* The cell records whose widget set lists the widget id k.
WidgetListers(s, k) == {c \in DOMAIN s.cell_widgets : k \in s.cell_widgets[c]}

\* C17: between operations every widget id in the registry is listed in the
\* widget set of at least one cell record.
C17_RegisteredWidgetListed ==
    \A k \in DOMAIN S1.widgets : WidgetListers(S1, k) # {}

\* The id the WIDGET output carries when a new widget object whose
\* characteristics hash to k is displayed in session s.
RegisteredAs(s, k) == FormatWidgetResult(s, WidgetObject(0, k, 0)).out.id

\* C18: two registrations of widgets with equal (type, properties, value)
\* carry the same id. A registry key k was created by a registration of the
\* shape that hashes to k, answered with id k; registering that shape again,
\* in any later state, is answered with id k.
C18_SameShapeSameId ==
    \A k \in DOMAIN S1.widgets : RegisteredAs(S1, k) = k

\* The registry entry's value lies within the bounds its properties declare.
WithinConstraints(info) ==
    info.properties.min <= info.value /\ info.value <= info.properties.max

\* C19: after UpdateWidgetValue has answered success, the values stored in the
\* registry satisfy the widgets' declared constraints.
C19_StoredValueWithinConstraints ==
    (resp.op = "update" /\ resp.success) =>
        \A k \in DOMAIN S1.widgets : WithinConstraints(S1.widgets[k])

\* C20: UpdateWidgetValue for a widget id that is not in the registry answers
\* success=false with a reason and changes no widget.
C20_UnknownWidgetRejected ==
    \A wid \in WidgetIds \ DOMAIN S1.widgets, raw \in RawValues :
        /\ ~UpdateWidgetValue(S1, wid, raw).success
        /\ UpdateWidgetValue(S1, wid, raw).error # ""
        /\ UpdateWidgetValue(S1, wid, raw).s.widgets = S1.widgets

\* C21 (as stated): UpdateWidgetValue on a registered number widget with a
\* value that cannot be converted to a number (a word, or the empty text)
\* answers success and leaves the widget's stored value as it was before.
C21_NoNumberKeepsValue ==
    [][(/\ resp'.op = "update"
        /\ resp'.raw.kind \in {"word", "empty"}
        /\ resp'.wid \in DOMAIN S1.widgets) =>
          /\ resp'.success
          /\ resp'.wid \in DOMAIN S1'.widgets
          /\ S1'.widgets[resp'.wid].value = S1.widgets[resp'.wid].value]_vars

\* C21 (amended): a non-empty text that is no number answers success and
\* leaves the stored value as it was; the empty text answers success and
\* stores 0.
C21_UnconvertibleKeepsValue ==
    [][(/\ resp'.op = "update"
        /\ resp'.raw.kind \in {"word", "empty"}
        /\ resp'.wid \in DOMAIN S1.widgets) =>
          /\ resp'.success
          /\ resp'.wid \in DOMAIN S1'.widgets
          /\ S1'.widgets[resp'.wid].value =
                 IF resp'.raw.kind = "word" THEN S1.widgets[resp'.wid].value ELSE 0]_vars

\* C21 witness: such a call has answered for a widget whose stored value is
\* not the fallback 0.
C21_Witness ==
    /\ resp.op = "update"
    /\ resp.success
    /\ resp.raw.kind = "word"
    /\ resp.wid \in DOMAIN S1.widgets
    /\ S1.widgets[resp.wid].value # 0

\* now minus last-accessed of the session registered under sid.
IdleTime(sid) == now - heap[sessions[sid]].last_accessed

\* C22: a lookup of a registered session whose idle time exceeds the timeout
\* ends it (its directory is removed), unregisters it and finds nothing; a
\* lookup made while the idle time is below the timeout finds the session,
\* leaves it registered and sets its last-accessed time to now.
C22_ExpiryOnLookup ==
    [][(resp'.op = "state" /\ now' = now /\ resp'.sid \in DOMAIN sessions) =>
         /\ IdleTime(resp'.sid) > SESSION_TIMEOUT_MINUTES =>
               /\ resp'.sid \notin DOMAIN sessions'
               /\ ~resp'.success
               /\ ~GetSession(M, resp'.sid, now).m.heap[sessions[resp'.sid]].working_dir
         /\ IdleTime(resp'.sid) < SESSION_TIMEOUT_MINUTES =>
               /\ resp'.sid \in DOMAIN sessions'
               /\ sessions'[resp'.sid] = sessions[resp'.sid]
               /\ resp'.success
               /\ heap'[sessions'[resp'.sid]].last_accessed = now]_vars

\* C22 witness: a session is found by a lookup made later than the timeout
\* after time 0, its last-accessed time now being the time of the lookup.
C22_Witness ==
    /\ resp.op = "state"
    /\ resp.success
    /\ now > SESSION_TIMEOUT_MINUTES
    /\ resp.sid \in DOMAIN sessions
    /\ heap[sessions[resp.sid]].last_accessed = now

\* The registry and the session objects of sw are those of m.
SameSessions(sw, m) ==
    /\ m.sessions = sw.sessions
    /\ \A k \in DOMAIN sw.sessions : m.heap[m.sessions[k]] = sw.heap[sw.sessions[k]]

\* With sw the registry after the expiry sweep and k the answer of
\* create_session: in each of the three cases k is an error and leaves sw.
StartRejected(sw, sid, nb, k) ==
    (\/ sid \in DOMAIN sw.sessions
     \/ Cardinality(DOMAIN sw.sessions) >= MAX_SESSIONS
     \/ (nb \notin DOMAIN StoredNotebooks /\ AltPath(nb) \notin DOMAIN StoredNotebooks))
        => (k.error # "" /\ SameSessions(sw, k.m) /\ k.mods = sys_modules)

\* C23: a start is rejected with a reason, the registry and every session
\* staying as the expiry sweep left them, when the id is registered, when the
\* session count has reached the cap, or when the notebook source is at
\* neither of its two locations.
C23_StartRejected ==
    \A sid \in SessionIds, nb \in NotebookPaths :
        StartRejected(CleanupExpiredSessions(M, now), sid, nb,
                      CreateSession(M, sys_modules, now, sid, nb, {}, {}))

\* C23 witness: a start naming a notebook that is at neither location has been
\* rejected while a session is registered.
C23_Witness ==
    /\ resp.op = "start"
    /\ ~resp.success
    /\ resp.error = "not found in MinIO"
    /\ DOMAIN sessions # {}

\* C24: an ExecuteCell, UpdateWidgetValue or EndSession addressed to a session
\* id that is not registered answers success=false with "Session not found",
\* a GetSessionState answers exists=false, and the id stays unregistered.
C24_UnknownSessionReported ==
    [][(/\ resp'.op \in {"execute", "update", "end", "state"}
        /\ now' = now
        /\ resp'.sid \notin DOMAIN sessions) =>
          /\ ~resp'.success
          /\ resp'.op # "state" => resp'.error = "Session not found"
          /\ resp'.sid \notin DOMAIN sessions']_vars

\* The expression of the last top-level assignment to n in the source.
LastAssigned(code, n) ==
    code[CHOOSE i \in 1..Len(code) :
             /\ code[i].op = "assign" /\ code[i].target = n
             /\ \A j \in (i + 1)..Len(code) :
                    ~(code[j].op = "assign" /\ code[j].target = n)].expr

InitOverridden(s, c, code, e) ==
    \A n \in AssignTargets(code) \cap GetCellVariables(s, "initialization") :
        (e.success /\ n \in DOMAIN s.globals) =>
            /\ n \in DOMAIN e.s.globals
            /\ e.s.globals[n].repr = Eval(LastAssigned(code, n), e.s.globals, {}).val.repr
            /\ n \notin GetCellVariables(e.s, "initialization")
            /\ n \in GetCellVariables(e.s, c)

\* C26: when the `initialization` record lists a bound name x and a cell whose
\* source assigns x by plain name assignment executes successfully, then
\* afterwards x holds the value the cell gave it, the `initialization` record
\* no longer lists x, and the cell's record lists x. Stated of every
\* ExecuteCell request that can arrive in the state.
C26_InitOverride ==
    ncalls < MaxCalls =>
    \A c \in Cells \ {"initialization"},
       code \in {src \in Sources :
                    AssignTargets(src) \cap GetCellVariables(S1, "initialization") # {}} :
        InitOverridden(S1, c, code,
                       ExecuteCell(W1, c, code, HeldOutside(heap, sessions["s1"])))

\* C26 witness: the first call of a session whose notebook bound x assigned x
\* and succeeded; its cell now lists x and the `initialization` record does not.
C26_Witness ==
    /\ resp.op = "execute"
    /\ resp.success
    /\ ncalls = 1
    /\ "x" \in GetCellVariables(S1, resp.cell)
    /\ "x" \notin GetCellVariables(S1, "initialization")
    /\ "y" \in GetCellVariables(S1, "initialization")

\* C27: a source is rejected with the length message exactly when it is longer
\* than Config.MAX_CODE_LENGTH: a source of exactly that length is not
\* rejected for its length, one a character longer is, and an over-long source
\* gets the length message even when it would also fail the parse or the
\* import rule. Stated of every ExecuteCell request that can arrive.
C27_LengthBoundary ==
    \A c \in Cells \ {"initialization"}, code \in LengthSources :
        SourceLength(code) > MAX_CODE_LENGTH
            <=> ExecuteCell(W1, c, code, HeldOutside(heap, sessions["s1"])).error
                    = "Code exceeds maximum length"

\* C27 witness: x is bound, which only a source of exactly the maximum length
\* does here, and the last call was rejected for its length.
C27_Witness ==
    /\ resp.op = "execute"
    /\ resp.error = "Code exceeds maximum length"
    /\ ~resp.success
    /\ "x" \in DOMAIN S1.globals

\* The figures the outputs carry, and pyplot's open figures.
FiguresIn(outputs) ==
    {outputs[i].figure : i \in {j \in 1..Len(outputs) : "figure" \in DOMAIN outputs[j]}}
OpenFigures == {figures[i] : i \in 1..Len(figures)}

\* A source that calls nothing of pyplot: every figure among the outputs of
\* its execution was put there by the figure scan.
DrawsNothing(code) == \A i \in 1..Len(code) : code[i].expr.kind \notin {"plot", "figure"}

NotEmittedAgain(code, e) ==
    DrawsNothing(code) =>
        \A o \in FiguresIn(resp.outputs) \cap OpenFigures : o \notin FiguresIn(e.outputs)

\* C25: a figure is emitted once: a figure that the outputs of the last
\* ExecuteCell carried is not emitted by the figure scan of the next
\* execution. Stated of every ExecuteCell request that can arrive in the state.
C25_FigureEmittedOnce ==
    (resp.op = "execute" /\ ncalls < MaxCalls) =>
    \A c \in Cells \ {"initialization"}, code \in OutputSources :
        NotEmittedAgain(code, ExecuteCell(W1, c, code, HeldOutside(heap, sessions["s1"])))

\* C28: when a cell wrote to stdout and to stderr and raised nothing, the
\* STDOUT output is first and the STDERR output second in the output list.
C28_StdoutAboveStderr ==
    (/\ resp.op = "execute"
     /\ resp.success
     /\ HasOutput(resp.outputs, "STDOUT")
     /\ HasOutput(resp.outputs, "STDERR")) =>
        /\ resp.outputs[1].type = "STDOUT"
        /\ resp.outputs[2].type = "STDERR"

\* C29: the outputs of one ExecuteCell never hold two WIDGET outputs with the
\* same widget id.
C29_NoDuplicateWidgetOutput ==
    resp.op = "execute" =>
        \A i, j \in 1..Len(resp.outputs) :
            (/\ i < j
             /\ resp.outputs[i].type = "WIDGET"
             /\ resp.outputs[j].type = "WIDGET") =>
                resp.outputs[i].id # resp.outputs[j].id

\* How many times the statement at position i ran.
TimesRun(ran, i) == Cardinality({k \in 1..Len(ran) : ran[k] = i})

RanOnce(code, e) ==
    (code # <<>> /\ code[Len(code)].op = "expr" /\ e.error \notin ValidationErrors) =>
        \A i \in 1..Len(code) :
            /\ TimesRun(e.ran, i) <= 1
            /\ e.success => TimesRun(e.ran, i) = 1

\* C30: when the last top-level statement of the source is an expression, no
\* statement runs twice, and when nothing raises every statement before it
\* and the expression itself run exactly once. Stated of every ExecuteCell
\* request that can arrive in the state.
C30_StatementsRunOnce ==
    ncalls < MaxCalls =>
    \A c \in Cells \ {"initialization"}, code \in OutputSources :
        RanOnce(code, ExecuteCell(W1, c, code, HeldOutside(heap, sessions["s1"])))

\* The namespace after the cell's retraction and the initialisation-conflict pass.
BeforeRun(w, c, code) ==
    InitialVariablesPass(CleanupCellVariables(w, c), c, code).s.globals

\* Names absent before and present after, and names present in both whose
\* object changed, less the protected names.
NewOrModified(before, after) ==
    {n \in (DOMAIN after \ DOMAIN before)
           \cup {k \in DOMAIN before \cap DOMAIN after : after[k].oid # before[k].oid} :
        ~IsProtectedVariable(n)}

RecordIs(s, c, names) ==
    /\ GetCellVariables(s, c) = names
    /\ c \notin DOMAIN s.cell_variables <=> names = {}

TrackedAsStated(before, c, e) ==
    (e.error \notin ValidationErrors /\ ~e.over) =>
        RecordIs(e.s, c, NewOrModified(before, e.s.globals))

\* C31: after an ExecuteCell that ran the source (to success or to an
\* exception), the cell's tracked binding set is the names new since, or bound
\* to another object than in, the namespace left by the cell's retraction and
\* the initialisation-conflict pass, less the protected names; the cell has
\* no record iff that set is empty. Stated of every request that can arrive.
C31_TrackedIsNewOrModified ==
    ncalls < MaxCalls =>
    \A c \in Cells \ {"initialization"}, code \in MaintSources :
        TrackedAsStated(BeforeRun(W1, c, code), c,
                        ExecuteCell(W1, c, code, HeldOutside(heap, sessions["s1"])))

\* C31 witness: the last call rebound a name that another cell's record lists,
\* and its own record lists the name too.
C31_Witness ==
    /\ resp.op = "execute"
    /\ resp.error \notin ValidationErrors
    /\ \E d \in Cells \ {resp.cell} :
          GetCellVariables(S1, d) \cap GetCellVariables(S1, resp.cell) # {}

\* The names the heuristic takes for import aliases.
CommonAliases == {"pd", "np", "plt", "sns", "os", "sys", "json", "dt"}

LooksLikeAlias(s, n) ==
    \/ n \in CommonAliases
    \/ \E d \in DOMAIN s.cell_variables \cap DOMAIN s.cell_imports :
          s.cell_imports[d] # {} /\ n \in s.cell_variables[d]

OtherTrackedCellImports(s, c) ==
    \E d \in (DOMAIN s.cell_variables \cap DOMAIN s.cell_imports) \ {c} :
        s.cell_imports[d] # {}

AliasKeptElseRemoved(s, c, after) ==
    \A n \in (GetCellVariables(s, c) \cap DOMAIN s.globals) :
        ~ListedByOther(s, c, n) =>
            /\ (LooksLikeAlias(s, n) /\ OtherTrackedCellImports(s, c)) =>
                   n \in DOMAIN after.globals
            /\ ~LooksLikeAlias(s, n) => n \notin DOMAIN after.globals

\* C32: the retraction of a cell keeps a live binding that only this cell's
\* record lists when the name looks like an import alias and another tracked
\* cell has imports of its own, and removes such a binding when the name does
\* not look like an import alias. Stated of the retraction of every cell in
\* the state.
C32_AliasHeuristic ==
    \A c \in Cells : AliasKeptElseRemoved(S1, c, CleanupCellVariables(W1, c).s)

\* The modules of the cell's import set that no other cell's import set lists
\* and that are not protected.
OwnImports(s, c) ==
    {m \in GetCellImports(s, c) :
        /\ \A d \in DOMAIN s.cell_imports \ {c} : m \notin s.cell_imports[d]
        /\ ~IsProtectedModule(m)}

Reimported(s, c, code, p, e) ==
    ValidateCode(config, code) =>
        /\ OwnImports(s, c) \cap DOMAIN p.mods = {}
        /\ GetCellImports(e.s, c) = {m \in ImportedModules(code) : ~IsProtectedModule(m)}

\* C33: when a cell is executed again, every module of its previous import
\* set that no other cell's import set lists and that is not protected is
\* out of sys.modules when the new source starts to run, whether or not the
\* cell had tracked bindings, and afterwards the cell's import set is the
\* non-protected modules the new source imports. Stated of every ExecuteCell
\* request that can arrive in the state.
C33_ImportsRetracted ==
    ncalls < MaxCalls =>
    \A c \in Cells \ {"initialization"}, code \in AliasSources :
        Reimported(S1, c, code, PrepareCell(W1, c, code),
                   ExecuteCell(W1, c, code, HeldOutside(heap, sessions["s1"])))

\* What a forced cleanup of cell c leaves of session s in session t.
TrackedGone(s, c, t) == GetCellVariables(s, c) \cap DOMAIN t.globals = {}
UnderscoresStay(s, t) == \A n \in UnderscoreNames \cap DOMAIN s.globals : n \in DOMAIN t.globals
NoRecordNoSnapshot(c, t) == c \notin DOMAIN t.cell_variables /\ c \notin t.cell_globals_snapshot

ForcedCleanupDone(s, c, t) ==
    TrackedGone(s, c, t) /\ UnderscoresStay(s, t) /\ NoRecordNoSnapshot(c, t)

TrackersKeyed(s) ==
    \A d \in s.cell_globals_snapshot \cup DOMAIN s.cell_imports \cup DOMAIN s.cell_widgets :
        GetCellVariables(s, d) # {}

Repaired(s, t) ==
    /\ ValidateSessionIntegrity(t).orphaned_snapshots = {}
    /\ ValidateSessionIntegrity(t).consistency_errors = {}
    /\ TrackersKeyed(t)
    /\ t.globals = s.globals /\ t.gorder = s.gorder
    /\ t.widgets = s.widgets /\ t.worder = s.worder

\* C35: in every reachable session state, after optimize_session_performance
\* the integrity check lists no orphaned snapshot and no consistency error
\* (every snapshot, import-tracker and widget-tracker key is a cell with a
\* non-empty tracked binding set), and the repair has changed neither the
\* namespace nor the widget registry.
C35_RepairRestoresIntegrity == Repaired(S1, OptimizeSessionPerformance(S1))

\* The session to repair has an orphaned snapshot, an import tracker entry
\* and a widget tracker entry of cells without a binding record.
C35_Witness ==
    /\ ValidateSessionIntegrity(S1).orphaned_snapshots # {}
    /\ DOMAIN S1.cell_imports \ DOMAIN S1.cell_variables # {}
    /\ DOMAIN S1.cell_widgets \ DOMAIN S1.cell_variables # {}

\* The ids registered in m whose session has been idle for longer than the
\* timeout at time t.
ExpiredIds(m, t) ==
    {q \in DOMAIN m.sessions : t - m.heap[m.sessions[q]].last_accessed > SESSION_TIMEOUT_MINUTES}

\* With k the answer of create_session(sid, nb) made of the manager m at time t.
SweptBeforeChecks(m, t, sid, nb, k) ==
    /\ ExpiredIds(k.m, t) = {}
    /\ ExpiredIds(m, t) \cap DOMAIN k.m.sessions \subseteq {sid}
    /\ k.error = "already exists" => sid \in DOMAIN m.sessions \ ExpiredIds(m, t)
    /\ k.error = "Maximum number of sessions reached" =>
          Cardinality(DOMAIN m.sessions \ ExpiredIds(m, t)) >= MAX_SESSIONS
    /\ (sid \in ExpiredIds(m, t) /\ k.error = "") =>
          k.m.heap[k.m.sessions[sid]].last_accessed = t
    /\ k.error # "" => DOMAIN k.m.sessions = DOMAIN m.sessions \ ExpiredIds(m, t)

\* C36: a start runs the expiry sweep before it tests the id and the cap:
\* after it no registered session has been idle for longer than the timeout,
\* an expired session neither makes the start fail as a duplicate of its id
\* nor counts toward the cap, and the sessions the sweep ended stay ended when
\* the start is then rejected. Stated of every start that can arrive.
C36_SweepBeforeChecks ==
    \A sid \in SessionIds, nb \in NotebookPaths :
        SweptBeforeChecks(M, now, sid, nb, CreateSession(M, sys_modules, now, sid, nb, {}, {}))

\* The registry is at the cap and one of its sessions has expired.
C36_Witness ==
    /\ Cardinality(DOMAIN sessions) = MAX_SESSIONS
    /\ ExpiredIds(M, now) # {}
    /\ ExpiredIds(M, now) # DOMAIN sessions

\* The session keeps nothing about cell c.
NoPriorRecord(s, c) ==
    /\ c \notin DOMAIN s.cell_variables \cup DOMAIN s.cell_imports \cup DOMAIN s.cell_widgets
    /\ c \notin s.cell_globals_snapshot

\* With e the answer to the empty source executed as cell c of session s.
NothingDone(s, c, e) ==
    /\ e.success
    /\ e.outputs = <<>>
    /\ e.s.globals = s.globals
    /\ c \notin DOMAIN e.s.cell_variables \cup DOMAIN e.s.cell_imports \cup DOMAIN e.s.cell_widgets

\* C37: an ExecuteCell whose source is empty (a source of blank lines is the
\* same sequence of no statements), on a cell id the session has no record
\* of, answers success=true with an empty output list, binds no name, removes
\* no name and records no tracked bindings, imports or widgets for the cell.
\* Stated of every such request that can arrive in the state.
C37_EmptySourceDoesNothing ==
    ncalls < MaxCalls =>
    \A c \in Cells \ {"initialization"} :
        NoPriorRecord(S1, c) =>
            NothingDone(S1, c, ExecuteCell(W1, c, <<>>, HeldOutside(heap, sessions["s1"])))

\* The names that a record of a cell other than c lists and the namespace binds.
TrackedByOthers(s, c) ==
    UNION {s.cell_variables[d] \cap DOMAIN s.globals : d \in DOMAIN s.cell_variables \ {c}}

\* With e the answer to a source executed as cell c of session s.
OthersKeptOnError(s, c, e) ==
    e.error = "exception" => TrackedByOthers(s, c) \subseteq DOMAIN e.s.globals

\* C38: an ExecuteCell on a cell that ends with an exception raised by the
\* source removes no binding that the record of a different cell, the record
\* `initialization` included, listed when the call began. Stated of every
\* ExecuteCell request that can arrive in the state.
C38_FailedRunKeepsOthers ==
    ncalls < MaxCalls =>
    \A c \in Cells \ {"initialization"}, code \in Sources :
        OthersKeptOnError(S1, c, ExecuteCell(W1, c, code, HeldOutside(heap, sessions["s1"])))

\* The dependency graph of the registry: each edge is listed at both of its
\* ends, and every id listed is registered.
GraphConsistent(s) ==
    \A a \in DOMAIN s.widgets :
        /\ s.widgets[a].dependencies \cup s.widgets[a].dependents \subseteq DOMAIN s.widgets
        /\ \A b \in DOMAIN s.widgets :
              b \in s.widgets[a].dependencies <=> a \in s.widgets[b].dependents

\* C39: in every reachable state a widget lists another in its dependencies
\* exactly when that one lists it in its dependents, and every id in either
\* list is registered; this across add_widget_dependency, a registration
\* under an id that is already registered, and the widget cleanup of a cell
\* that is executed again.
C39_DependencyGraphConsistent == GraphConsistent(S1)

\* The names a notebook source has bound when it fails or ends: none when the
\* validator rejects it, else the targets of the lines above the first raise.
RECURSIVE BoundBeforeFailure(_)
BoundBeforeFailure(code) ==
    IF code = <<>> \/ Head(code).op = "raise" THEN {}
    ELSE {Head(code).target} \cup BoundBeforeFailure(Tail(code))

InitialBindings(code) == IF ValidateCode(config, code) THEN BoundBeforeFailure(code) ELSE {}

HandleAnd(s, names) ==
    /\ DOMAIN s.globals = {"mo", "marimo"} \cup names
    /\ GetCellVariables(s, "initialization") = names

\* With k the answer of create_session(sid, nb) made of the manager m at time t.
StartedDespiteFailure(m, t, sid, nb, k) ==
    (/\ sid \notin DOMAIN m.sessions \ ExpiredIds(m, t)
     /\ Cardinality(DOMAIN m.sessions \ ExpiredIds(m, t)) < MAX_SESSIONS
     /\ VerifyNotebookExists(nb)) =>
        /\ k.error = ""
        /\ sid \in DOMAIN k.m.sessions
        /\ HandleAnd(k.m.heap[k.m.sessions[sid]], InitialBindings(GetNotebookContent(nb)))

\* C40: a start whose id and cap checks pass and whose notebook is found
\* answers success and registers the session also when the validator rejects
\* the notebook source or the source raises; the session then holds the SDK
\* handle and, beside it, only the bindings made before the failure, which
\* the record `initialization` lists. Stated of every start that can arrive.
C40_StartSurvivesFailedInit ==
    \A sid \in SessionIds, nb \in FailingPaths :
        StartedDespiteFailure(M, now, sid, nb,
                              CreateSession(M, sys_modules, now, sid, nb, {}, {}))

\* The last start succeeded and two sessions are registered: one holds the
\* handle only (its notebook was rejected), one also the binding made above
\* the raise.
C40_Witness ==
    /\ resp.op = "start" /\ resp.success
    /\ \E a, b \in DOMAIN sessions :
          /\ DOMAIN heap[sessions[a]].globals = {"mo", "marimo"}
          /\ HandleAnd(heap[sessions[b]], {"x"})

=============================================================================
